---- MODULE Spec2Model ----
(***************************************************************************)
(* Verification model of the news/post content pipeline of                 *)
(* social-media-post-manager (backend/app/langgraph).                      *)
(*                                                                         *)
(* Spec     the news workflow: input validation, the quota gate with its   *)
(*          database transaction, and the stages behind it, run by         *)
(*          concurrent requests.                                           *)
(* SumSpec  the summarizer's provider fallback over one batch.             *)
(* FetchSpec, RankSpec, PostSpec, CacheSpec: the search retry loop, the     *)
(*          ranker, the two post workflows, and concurrent cache saves.    *)
(***************************************************************************)
EXTENDS Integers, Sequences, FiniteSets, TLC

VARIABLES now, ticks, sessions, ledger, nextId, rowLock,
          pc, req, txn, local, quota_info, outcome, called,
          spc, sum_in, sum_idx, providers_tried, summarized, sum_attempt,
          sum_calls, sum_delays, current_llm_provider, sum_result,
          last_error, sum_error,
          fpc, fetch_key, fetch_attempt, fetch_outcomes, fetch_delays, fetch_result,
          rpc, rank_in, topic_config, final_articles, filtered_articles,
          ppc, post_in, linkedin_post, x_post, post_calls, error_message, x_steps,
          generated_posts,
          cpc, cache_in, cache_idx, db_session, news_cache, cache_logged, cache_result,
          hpc, hash_in, request_hashes,
          gpc, graph_in, channels,
          _states, used_keys, run_pc, run_in, run_key, minimal_state, run_result, client,
          dup_now, dup_ledger, dup_lock, gate

quotaVars == <<now, ticks, sessions, ledger, nextId, rowLock,
               pc, req, txn, local, quota_info, outcome, called>>
sumVars == <<spc, sum_in, sum_idx, providers_tried, summarized, sum_attempt,
             sum_calls, sum_delays, current_llm_provider, sum_result,
             last_error, sum_error>>
fetchVars == <<fpc, fetch_key, fetch_attempt, fetch_outcomes, fetch_delays, fetch_result>>

rankVars == <<rpc, rank_in, topic_config, final_articles, filtered_articles>>

postVars == <<ppc, post_in, linkedin_post, x_post, post_calls, error_message, x_steps,
              generated_posts>>

cacheVars == <<cpc, cache_in, cache_idx, db_session, news_cache, cache_logged, cache_result>>

hashVars == <<hpc, hash_in, request_hashes>>

stateVars == <<gpc, graph_in, channels>>

storeVars == <<_states, used_keys, run_pc, run_in, run_key, minimal_state, run_result, client>>

dupVars == <<dup_now, dup_ledger, dup_lock, gate>>

vars == <<quotaVars, sumVars, fetchVars, rankVars, postVars, cacheVars, hashVars, stateVars, storeVars, dupVars>>

\* What each part of the model leaves alone
notQuota == <<sumVars, fetchVars, rankVars, postVars, cacheVars, hashVars, stateVars, storeVars, dupVars>>

notSum == <<quotaVars, fetchVars, rankVars, postVars, cacheVars, hashVars, stateVars, storeVars, dupVars>>

notFetch == <<quotaVars, sumVars, rankVars, postVars, cacheVars, hashVars, stateVars, storeVars, dupVars>>

notRank == <<quotaVars, sumVars, fetchVars, postVars, cacheVars, hashVars, stateVars, storeVars, dupVars>>

notPost == <<quotaVars, sumVars, fetchVars, rankVars, cacheVars, hashVars, stateVars, storeVars, dupVars>>

notCache == <<quotaVars, sumVars, fetchVars, rankVars, postVars, hashVars, stateVars, storeVars, dupVars>>

notHash == <<quotaVars, sumVars, fetchVars, rankVars, postVars, cacheVars, stateVars, storeVars, dupVars>>

notState == <<quotaVars, sumVars, fetchVars, rankVars, postVars, cacheVars, hashVars, storeVars, dupVars>>

notStore == <<quotaVars, sumVars, fetchVars, rankVars, postVars, cacheVars, hashVars, stateVars, dupVars>>

notDup == <<quotaVars, sumVars, fetchVars, rankVars, postVars, cacheVars, hashVars, stateVars, storeVars>>

(***************************************************************************)
(* Bounds of the model.                                                    *)
(***************************************************************************)
MaxRequests == 2
MaxTicks == 1
MaxArticles == 2
MaxRaw == 3
MaxTopicLen == 3

\* The calls a direct caller of the external state manager makes
MaxCalls == 2

\* The half hours the clock of the duplicate checks advances
MaxHalfHours == 4

(***************************************************************************)
(* Settings (app/core/config.py) and calendar arithmetic.  Time is counted *)
(* in minutes of UTC; day 0 is the first day of a month.                   *)
(***************************************************************************)
DAILY_QUOTA_LIMIT == 10
MONTHLY_QUOTA_LIMIT == 300
MAX_NEWS_ARTICLES == 12

MinutesPerDay == 24 * 60
DaysPerMonth == 31
OneHour == 60

DayOf(t) == t \div MinutesPerDay

\* today.replace(day=1)
MonthStart(day) == day - (day % DaysPerMonth)

\* The run starts on the last day of a month at 23:00 UTC.
StartDay == DaysPerMonth - 1
StartNow == StartDay * MinutesPerDay + 23 * 60

\* Between requests the clock advances by an hour, or by an hour and a minute.
TickSteps == {OneHour, OneHour + 1}

(***************************************************************************)
(* Strings are sequences of characters.                                    *)
(***************************************************************************)
Lower(c) ==
    CASE c = "A" -> "a"
      [] c = "I" -> "i"
      [] c = "G" -> "g"
      [] OTHER -> c

LowerAll(s) == [i \in DOMAIN s |-> Lower(s[i])]

IsSpace(c) == c \in {" ", "\t", "\n"}

RECURSIVE LStrip(_)
LStrip(s) == IF s # <<>> /\ IsSpace(Head(s)) THEN LStrip(Tail(s)) ELSE s

RECURSIVE RStrip(_)
RStrip(s) ==
    IF s # <<>> /\ IsSpace(s[Len(s)]) THEN RStrip(SubSeq(s, 1, Len(s) - 1)) ELSE s

Strip(s) == RStrip(LStrip(s))

TopicAI == <<"A", "I">>
TopicAiPadded == <<" ", "a", "i", " ">>
TopicGo == <<"G", "o">>
TopicMarkup == <<"<", "b">>
TopicEarlier == <<"o", "l", "d">>

(***************************************************************************)
(* ValidateInputNode: every check runs, the violations are reported        *)
(* together.                                                               *)
(***************************************************************************)
forbidden_chars == {"<", ">", "\"", "'", "&", ";"}
valid_models == {"claude-3-5-sonnet", "gpt-4-turbo", "gemini-pro"}
UuidStrings == {"s1", "s2"}

_validate_topic(topic) ==
    IF topic = <<>> THEN <<"Topic is required">>
    ELSE LET t == Strip(topic) IN
         (IF Len(t) < 2 THEN <<"Topic must be at least 2 characters long">> ELSE <<>>)
         \o (IF Len(t) > 100 THEN <<"Topic must be less than 100 characters">> ELSE <<>>)
         \o (IF \E i \in DOMAIN t : t[i] \in forbidden_chars
             THEN <<"Topic contains forbidden characters">> ELSE <<>>)

\* A date string is well-formed (YYYY-MM-DD, naming the day `day`) or not.
_validate_date(date, today) ==
    IF ~date.iso THEN <<"Date must be in YYYY-MM-DD format">>
    ELSE (IF date.day > today THEN <<"Date cannot be in the future">> ELSE <<>>)
         \o (IF today - date.day > 365
             THEN <<"Date cannot be more than 1 year ago">> ELSE <<>>)

_validate_top_n(top_n) ==
    (IF top_n < 1 THEN <<"Top N must be at least 1">> ELSE <<>>)
    \o (IF top_n > MAX_NEWS_ARTICLES THEN <<"Top N cannot exceed max">> ELSE <<>>)

_validate_llm_model(llm_model) ==
    IF llm_model = "" THEN <<"LLM model is required">>
    ELSE IF llm_model \notin valid_models THEN <<"LLM model must be one of">>
    ELSE <<>>

_validate_session_id(session_id) ==
    IF session_id = "" THEN <<"Session ID is required">>
    ELSE IF session_id \notin UuidStrings THEN <<"Session ID must be a valid UUID">>
    ELSE <<>>

validation_errors(r, today) ==
    _validate_topic(r.topic) \o _validate_date(r.date, today)
    \o _validate_top_n(r.top_n) \o _validate_llm_model(r.llm_model)
    \o _validate_session_id(r.session_id)

(***************************************************************************)
(* The requests the clients send.                                          *)
(***************************************************************************)
Request(topic, session_id) ==
    [topic |-> topic, date |-> [iso |-> TRUE, day |-> StartDay], top_n |-> 5,
     llm_model |-> "claude-3-5-sonnet", session_id |-> session_id]

NoRequest == Request(<<>>, "")

RequestInputs ==
    { Request(TopicAI, "s1"), Request(TopicAiPadded, "s1"), Request(TopicGo, "s1"),
      Request(TopicAI, "s2"),
      [Request(TopicMarkup, "s1") EXCEPT !.top_n = 13, !.llm_model = "gpt-5"] }

(***************************************************************************)
(* CheckQuotaNode: pure parts.                                             *)
(***************************************************************************)
\* Variant: the topic is hashed as it was typed
_generate_request_hash_verbatim(topic, date, session_id) ==
    <<session_id, topic, date>>

\* md5 over "{session_id}-{normalized_topic}-{date}", taken as collision-free:
\* the digest is identified with the triple it is computed from.
_generate_request_hash(topic, date, session_id) ==
    <<session_id, Strip(LowerAll(topic)), date>>

\* The rows a statement of transaction w reads: the committed ones and its own.
Visible(w) == ledger \cup txn[w].rows

\* Variant: one_hour_ago computed as utcnow() + timedelta(hours=1)
DuplicateRows_window_ahead(rows, session_id, request_hash, t) ==
    {r \in rows : /\ r.session_id = session_id
                  /\ r.request_hash = request_hash
                  /\ r.created_at >= t + OneHour}

\* Variant: created_at > one_hour_ago
DuplicateRows_strict(rows, session_id, request_hash, t) ==
    {r \in rows : /\ r.session_id = session_id
                  /\ r.request_hash = request_hash
                  /\ r.created_at > t - OneHour}

\* select(UserRequest).where(session_id, request_hash, created_at >= one_hour_ago)
DuplicateRows(rows, session_id, request_hash, t) ==
    {r \in rows : /\ r.session_id = session_id
                  /\ r.request_hash = request_hash
                  /\ r.created_at >= t - OneHour}

\* Variant: the count of today's rows of every session
DailyUsed_any_session(rows, session_id, today) ==
    Cardinality({r \in rows : DayOf(r.created_at) = today})

\* count(UserRequest.id) where date(created_at) == today
DailyUsed(rows, session_id, today) ==
    Cardinality({r \in rows : r.session_id = session_id /\ DayOf(r.created_at) = today})

\* count(UserRequest.id) where date(created_at) >= month_start
MonthlyUsed(rows, session_id, today) ==
    Cardinality({r \in rows : /\ r.session_id = session_id
                              /\ DayOf(r.created_at) >= MonthStart(today)})

QuotaInfo(daily_used, monthly_used) ==
    [present |-> TRUE,
     daily_used |-> daily_used, daily_limit |-> DAILY_QUOTA_LIMIT,
     monthly_used |-> monthly_used, monthly_limit |-> MONTHLY_QUOTA_LIMIT,
     remaining |-> DAILY_QUOTA_LIMIT - daily_used,
     quota_available |-> (daily_used < DAILY_QUOTA_LIMIT)]

NoQuotaInfo == [QuotaInfo(0, 0) EXCEPT !.present = FALSE]

\* Variant: daily_used > daily_limit, monthly_used > monthly_limit
_validate_quota_limits_strict(q) ==
    IF q.daily_used > q.daily_limit THEN "daily"
    ELSE IF q.monthly_used > q.monthly_limit THEN "monthly"
    ELSE "ok"

\* "ok", or the window whose limit is reached
_validate_quota_limits(q) ==
    IF q.daily_used >= q.daily_limit THEN "daily"
    ELSE IF q.monthly_used >= q.monthly_limit THEN "monthly"
    ELSE "ok"

\* quota_info after the request was recorded
QuotaAfterRecord(q) ==
    LET d == q.daily_used + 1 IN
    [q EXCEPT !.daily_used = d, !.monthly_used = q.monthly_used + 1,
              !.remaining = q.daily_limit - d,
              !.quota_available = (q.daily_limit - d > 0)]

\* NewsWorkflow._should_continue_after_quota
_should_continue_after_quota(q) ==
    IF ~q.present THEN "end"
    ELSE IF q.quota_available THEN "continue" ELSE "end"

\* GET /sessions/{id}/quota
get_session_quota(session_id) ==
    LET today == DayOf(now)
        daily_used == DailyUsed(ledger, session_id, today)
        remaining == IF DAILY_QUOTA_LIMIT - daily_used > 0
                     THEN DAILY_QUOTA_LIMIT - daily_used ELSE 0
    IN [dailyUsed |-> daily_used, dailyLimit |-> DAILY_QUOTA_LIMIT,
        monthlyUsed |-> MonthlyUsed(ledger, session_id, today),
        monthlyLimit |-> MONTHLY_QUOTA_LIMIT,
        remaining |-> remaining, quotaAvailable |-> (remaining > 0)]

(***************************************************************************)
(* The news workflow (NewsWorkflow._add_workflow_edges) and the statements *)
(* of CheckQuotaNode.__call__ in the order they are issued.  A request in  *)
(* flight is about to run one of these steps:                              *)
(*   ensure_session [insert_session], check_duplicate, daily_usage,        *)
(*   monthly_usage, record_request, commit, fetch_news, filter_articles,   *)
(*   summarize_content, save_results.                                      *)
(* validate_input runs when the request arrives; the conditional edge is   *)
(* taken with the commit.                                                  *)
(***************************************************************************)
Workers == {1, 2}
SessionIds == {"s1", "s2"}
Nobody == 0

\* Variant: the request is recorded and committed before the checks
After_record_first(step) ==
    CASE step = "validate_input" -> "ensure_session"
      [] step = "ensure_session" -> "record_request"
      [] step = "insert_session" -> "record_request"
      [] step = "record_request" -> "commit"
      [] step = "commit" -> "check_duplicate"
      [] step = "check_duplicate" -> "daily_usage"
      [] step = "daily_usage" -> "monthly_usage"
      [] step = "monthly_usage" -> "done"
      [] step = "fetch_news" -> "filter_articles"
      [] step = "filter_articles" -> "summarize_content"
      [] step = "summarize_content" -> "save_results"
      [] step = "save_results" -> "done"

\* Variant: the quota check is made before the duplicate check
After_quota_first(step) ==
    CASE step = "validate_input" -> "ensure_session"
      [] step = "ensure_session" -> "daily_usage"
      [] step = "insert_session" -> "daily_usage"
      [] step = "daily_usage" -> "monthly_usage"
      [] step = "monthly_usage" -> "check_duplicate"
      [] step = "check_duplicate" -> "record_request"
      [] step = "record_request" -> "commit"
      [] step = "commit" -> "route"
      [] step = "fetch_news" -> "filter_articles"
      [] step = "filter_articles" -> "summarize_content"
      [] step = "summarize_content" -> "save_results"
      [] step = "save_results" -> "done"

\* Variant: fetch_news leads to summarize_content directly
After_unfiltered(step) ==
    CASE step = "validate_input" -> "ensure_session"
      [] step = "ensure_session" -> "check_duplicate"
      [] step = "insert_session" -> "check_duplicate"
      [] step = "check_duplicate" -> "daily_usage"
      [] step = "daily_usage" -> "monthly_usage"
      [] step = "monthly_usage" -> "record_request"
      [] step = "record_request" -> "commit"
      [] step = "commit" -> "route"
      [] step = "fetch_news" -> "summarize_content"
      [] step = "filter_articles" -> "summarize_content"
      [] step = "summarize_content" -> "save_results"
      [] step = "save_results" -> "done"

\* Variant: the transaction of the gate is committed after the last stage
After_commit_last(step) ==
    CASE step = "validate_input" -> "ensure_session"
      [] step = "ensure_session" -> "check_duplicate"
      [] step = "insert_session" -> "check_duplicate"
      [] step = "check_duplicate" -> "daily_usage"
      [] step = "daily_usage" -> "monthly_usage"
      [] step = "monthly_usage" -> "record_request"
      [] step = "record_request" -> "fetch_news"
      [] step = "fetch_news" -> "filter_articles"
      [] step = "filter_articles" -> "summarize_content"
      [] step = "summarize_content" -> "save_results"
      [] step = "save_results" -> "commit"
      [] step = "commit" -> "done"

After(step) ==
    CASE step = "validate_input" -> "ensure_session"
      [] step = "ensure_session" -> "check_duplicate"
      [] step = "insert_session" -> "check_duplicate"
      [] step = "check_duplicate" -> "daily_usage"
      [] step = "daily_usage" -> "monthly_usage"
      [] step = "monthly_usage" -> "record_request"
      [] step = "record_request" -> "commit"
      [] step = "commit" -> "route"
      [] step = "fetch_news" -> "filter_articles"
      [] step = "filter_articles" -> "summarize_content"
      [] step = "summarize_content" -> "save_results"
      [] step = "save_results" -> "done"

\* Variant: the node's exception is swallowed and the next node runs
OnError_continue(step) == After(step)

\* A node that raises ends the workflow: ainvoke propagates the exception.
OnError(step) == "done"

\* The database session of a request (AsyncSessionLocal()): whether the
\* session row is dirty (last_active assigned), whether that UPDATE was
\* flushed, whether this transaction inserted the session row, and the
\* user_requests rows it has flushed but not committed.
NoTxn == [dirty |-> FALSE, flushed |-> FALSE, new_session |-> FALSE, rows |-> {}]

\* What a request has observed: the rows its duplicate query returned, the
\* day and count read by _get_quota_info, the window of a QuotaExceeded,
\* the id of the row it recorded and whether that row was committed, and
\* the articles fetched.
NoLocal == [duplicates |-> 0, today |-> 0, daily_used |-> 0, quota_type |-> "",
            new_request_id |-> 0, committed |-> FALSE, articles |-> 0,
            processing_steps |-> <<>>]

\* mark_step_completed: the node is added to the completed steps
mark_step_completed(state, step_name) ==
    [state EXCEPT !.processing_steps = Append(@, step_name)]

NoCalls == [search |-> FALSE, llm |-> FALSE]

Sid(w) == req[w].session_id

RequestHash(w) == _generate_request_hash(req[w].topic, req[w].date, Sid(w))

\* Rows of user_requests a session had before the run: one short of the daily
\* limit, recorded earlier today, each more than an hour after the previous.
PriorToday == DAILY_QUOTA_LIMIT - 1

PriorRows ==
    {[id |-> i, session_id |-> "s1",
      request_hash |-> _generate_request_hash(TopicEarlier,
                                              [iso |-> TRUE, day |-> StartDay], "s1"),
      created_at |-> StartDay * MinutesPerDay + i * (OneHour + 1)] : i \in 1..PriorToday}

\* The session factory (app/core/database.py): transactions read what is
\* committed, and a query flushes the pending changes first.
autoflush == TRUE

\* Variant: last_active is left alone
TouchSession_skipped(t) == t

\* session.last_active = datetime.utcnow(): the session row becomes dirty
TouchSession(t) == [t EXCEPT !.dirty = TRUE, !.flushed = FALSE]

\* Flushing the pending UPDATE of sessions.last_active takes the row's lock
\* and waits while another transaction holds it.
NeedsUpdate(w) == txn[w].dirty /\ ~txn[w].flushed

FlushOk(w) == NeedsUpdate(w) => rowLock[Sid(w)] \in {Nobody, w}

Flushed(w) == [txn[w] EXCEPT !.flushed = txn[w].dirty]

LockAfterFlush(w) == IF NeedsUpdate(w) THEN [rowLock EXCEPT ![Sid(w)] = w] ELSE rowLock

\* An ORM select first flushes what is pending when the session factory
\* enables it, so the gate's reads are made under the session row's lock.
QueryOk(w) == autoflush => FlushOk(w)

TxnAfterQuery(w) == IF autoflush THEN Flushed(w) ELSE txn[w]

LockAfterQuery(w) == IF autoflush THEN LockAfterFlush(w) ELSE rowLock

Released(lock, w) == [s \in SessionIds |-> IF lock[s] = w THEN Nobody ELSE lock[s]]

\* An exception leaves `async with AsyncSessionLocal()` without a commit: the
\* transaction is rolled back, and the error propagates out of the workflow.
Raise(w, error) ==
    /\ outcome' = [outcome EXCEPT ![w] = error]
    /\ pc' = [pc EXCEPT ![w] = OnError(pc[w])]
    /\ txn' = [txn EXCEPT ![w] = NoTxn]
    /\ rowLock' = Released(rowLock, w)

\* The requests the gate has let through in the run or is deciding on
InGate(w) ==
    pc[w] \in {"ensure_session", "insert_session", "check_duplicate", "daily_usage",
               "monthly_usage", "record_request", "commit"}

Passed ==
    Cardinality({r \in ledger : r.created_at >= StartNow})
        + Cardinality({w \in Workers : InGate(w)})

QuotaInit ==
    /\ now = StartNow
    /\ ticks = 0
    /\ sessions = {"s1"}
    /\ ledger = PriorRows
    /\ nextId = PriorToday + 1
    /\ rowLock = [s \in SessionIds |-> Nobody]
    /\ pc = [w \in Workers |-> "idle"]
    /\ req = [w \in Workers |-> NoRequest]
    /\ txn = [w \in Workers |-> NoTxn]
    /\ local = [w \in Workers |-> NoLocal]
    /\ quota_info = [w \in Workers |-> NoQuotaInfo]
    /\ outcome = [w \in Workers |-> "none"]
    /\ called = [w \in Workers |-> NoCalls]

\* LLMProviderError(provider, original_error): the provider it is raised for
\* and the providers its message names
LLMProviderError(provider, named) == [raised |-> TRUE, provider |-> provider, named |-> named]

NoError == [raised |-> FALSE, provider |-> "", named |-> {}]

\* The summarizer's own run is left out of the workflow model.
SumOff ==
    /\ spc = "off"
    /\ sum_in = [llm_model |-> "", keys |-> {}, articles |-> <<>>]
    /\ sum_idx = 0
    /\ providers_tried = <<>>
    /\ summarized = <<>>
    /\ sum_attempt = 0
    /\ sum_calls = 0
    /\ sum_delays = <<>>
    /\ current_llm_provider = ""
    /\ sum_result = "none"
    /\ last_error = NoError
    /\ sum_error = NoError

\* The fetcher's own run is left out of the workflow model.
FetchOff ==
    /\ fpc = "off"
    /\ fetch_key = TRUE
    /\ fetch_attempt = 0
    /\ fetch_outcomes = <<>>
    /\ fetch_delays = <<>>
    /\ fetch_result = "none"

\* No TopicConfig row matches the topic: _load_topic_config returns None
NoConfig == [found |-> FALSE, keywords |-> <<>>, trustedSources |-> <<>>, priorityWeight |-> 1000]

\* The ranker's own run is left out of the workflow model.
RankOff ==
    /\ rpc = "off"
    /\ rank_in = [raw_articles |-> <<>>, top_n |-> 0]
    /\ topic_config = NoConfig
    /\ final_articles = <<>>
    /\ filtered_articles = <<>>

\* XPostNode has not worked on a draft
NoSteps == [draft |-> [body |-> 0, tags |-> 0, url |-> 0, words |-> {}],
            with_url |-> [body |-> 0, tags |-> 0, hash |-> FALSE,
                          url |-> [how |-> "none", on |-> ""]]]

\* No post yet: linkedin_post and x_post are None
NoPost == [made |-> FALSE, char_count |-> 0, generic |-> FALSE, topic |-> FALSE]

\* The post composer's own run is left out of the workflow model.
PostOff ==
    /\ ppc = "off"
    /\ post_in = [workflow |-> "", articles |-> <<>>, topic |-> [len |-> 0, spaces |-> 0, tags |-> 0],
                  providers |-> {}]
    /\ linkedin_post = NoPost
    /\ x_post = NoPost
    /\ post_calls = <<>>
    /\ error_message = ""
    /\ x_steps = NoSteps
    /\ generated_posts = {}

\* A database session with nothing added, nothing flushed, and a usable
\* transaction
NoSession == [new |-> <<>>, flushed |-> <<>>, inactive |-> FALSE]

\* The requests that save to the cache at the same time
Savers == {1, 2}

\* No cache save is under way
CacheOff ==
    /\ cpc = [s \in Savers |-> "finished"]
    /\ cache_in = [s \in Savers |-> <<>>]
    /\ cache_idx = [s \in Savers |-> 1]
    /\ db_session = [s \in Savers |-> NoSession]
    /\ news_cache = <<>>
    /\ cache_logged = [s \in Savers |-> {}]
    /\ cache_result = [s \in Savers |-> ""]

\* No request hash is being computed
NoHashInput == [topic |-> <<>>, variant |-> <<>>, spaced |-> FALSE, date |-> 0,
                session_id |-> ""]

HashOff ==
    /\ hpc = "finished"
    /\ hash_in = NoHashInput
    /\ request_hashes = <<>>


\* The fields of PostState that belong to the request
RequestFields == {"session_id", "workflow_id", "llm_model", "topic", "articles"}

\* What a channel with a reducer holds before anything is written to it: the
\* empty value of the field's type (str(), list())
ChannelDefault(field) == IF field = "articles" THEN <<>> ELSE ""

\* The graph of the post workflow is not run
StateOff ==
    /\ gpc = "finished"
    /\ graph_in = [field \in RequestFields |-> ChannelDefault(field)]
    /\ channels = [field \in RequestFields |-> ChannelDefault(field)]


\* The coroutines that call StatelessPostWorkflow.execute at the same time
Runners == {1, 2}

\* What get_state returns for a key the manager does not hold
None == [none |-> TRUE]

\* create_minimal_state before a key is known
NoMinimalState == [state_key |-> 0, error_message |-> "", failed_step |-> ""]

\* No call of the manager was made by the direct caller
NoClient == [key |-> 0, calls |-> 0, last |-> "none", arg |-> None, before |-> None,
             ret |-> None]

\* No stateless workflow runs and the manager holds nothing
StoreOff ==
    /\ _states = <<>>
    /\ used_keys = {}
    /\ run_pc = [r \in Runners |-> "raised"]
    /\ run_in = [r \in Runners |-> None]
    /\ run_key = [r \in Runners |-> 0]
    /\ minimal_state = [r \in Runners |-> NoMinimalState]
    /\ run_result = [r \in Runners |-> None]
    /\ client = NoClient


\* The worker processes that run the duplicate check of one session's
\* identical requests
Gates == {1, 2}

\* A gate that has not started
NoGate == [pc |-> "idle", computed_at |-> 0, duplicates |-> 0, result |-> "none"]

\* No duplicate check of the kind is under way
DupOff ==
    /\ dup_now = 0
    /\ dup_ledger = {}
    /\ dup_lock = Nobody
    /\ gate = [p \in Gates |-> NoGate]

Init == QuotaInit /\ SumOff /\ FetchOff /\ RankOff /\ PostOff /\ CacheOff /\ HashOff /\ StateOff /\ StoreOff /\ DupOff

\* A request is served within its minute: the clock moves on between requests.
Tick(d) ==
    /\ ticks < MaxTicks
    /\ Passed < MaxRequests
    /\ \A w \in Workers : pc[w] = "idle"
    /\ now' = now + d
    /\ ticks' = ticks + 1
    /\ UNCHANGED <<sessions, ledger, nextId, rowLock,
                   pc, req, txn, local, quota_info, outcome, called, notQuota>>

\* POST /news/fetch -> execute_news_workflow -> create_initial_state, and the
\* first node, ValidateInputNode.__call__
Submit(w, r) ==
    /\ pc[w] = "idle"
    /\ \A v \in Workers : v < w => pc[v] # "idle"
    /\ Passed < MaxRequests
    /\ req' = [req EXCEPT ![w] = r]
    /\ IF validation_errors(r, DayOf(now)) # <<>>
       THEN /\ outcome' = [outcome EXCEPT ![w] = "ValidationError"]
            /\ pc' = [pc EXCEPT ![w] = OnError("validate_input")]
            /\ UNCHANGED local
       ELSE /\ pc' = [pc EXCEPT ![w] = After("validate_input")]
            /\ local' = [local EXCEPT ![w] = mark_step_completed(@, "validate_input")]
            /\ UNCHANGED outcome
    /\ UNCHANGED <<now, ticks, sessions, ledger, nextId, rowLock,
                   txn, quota_info, called, notQuota>>

\* _ensure_session_exists: the SELECT, and the assignment of last_active
EnsureSession(w) ==
    /\ pc[w] = "ensure_session"
    /\ QueryOk(w)
    /\ IF Sid(w) \in sessions \/ txn[w].new_session
       THEN /\ txn' = [txn EXCEPT ![w] = TouchSession(TxnAfterQuery(w))]
            /\ pc' = [pc EXCEPT ![w] = After("ensure_session")]
       ELSE /\ txn' = [txn EXCEPT ![w] = TxnAfterQuery(w)]
            /\ pc' = [pc EXCEPT ![w] = "insert_session"]
    /\ rowLock' = LockAfterQuery(w)
    /\ UNCHANGED <<now, ticks, sessions, ledger, nextId,
                   req, local, quota_info, outcome, called, notQuota>>

\* _ensure_session_exists: add(new_session) and flush.  The INSERT waits for
\* a transaction that inserted the same key, and fails on the primary key
\* once that one has committed.
InsertSession(w) ==
    /\ pc[w] = "insert_session"
    /\ rowLock[Sid(w)] \in {Nobody, w}
    /\ IF Sid(w) \in sessions
       THEN Raise(w, "DatabaseError")
       ELSE /\ txn' = [txn EXCEPT ![w].new_session = TRUE]
            /\ rowLock' = [rowLock EXCEPT ![Sid(w)] = w]
            /\ pc' = [pc EXCEPT ![w] = After("insert_session")]
            /\ UNCHANGED outcome
    /\ UNCHANGED <<now, ticks, sessions, ledger, nextId,
                   req, local, quota_info, called, notQuota>>

\* _check_duplicate_request: scalar_one_or_none() over the rows of the last
\* hour raises MultipleResultsFound on two rows, reported as DatabaseError.
CheckDuplicate(w) ==
    /\ pc[w] = "check_duplicate"
    /\ QueryOk(w)
    /\ LET n == Cardinality(DuplicateRows(Visible(w), Sid(w), RequestHash(w), now)) IN
       /\ local' = [local EXCEPT ![w].duplicates = n]
       /\ IF n = 1 THEN Raise(w, "DuplicateRequest")
          ELSE IF n > 1 THEN Raise(w, "DatabaseError")
          ELSE /\ pc' = [pc EXCEPT ![w] = After("check_duplicate")]
               /\ txn' = [txn EXCEPT ![w] = TxnAfterQuery(w)]
               /\ rowLock' = LockAfterQuery(w)
               /\ UNCHANGED outcome
    /\ UNCHANGED <<now, ticks, sessions, ledger, nextId,
                   req, quota_info, called, notQuota>>

\* _get_quota_info: today, and the count of today's rows
DailyUsage(w) ==
    /\ pc[w] = "daily_usage"
    /\ QueryOk(w)
    /\ local' = [local EXCEPT ![w].today = DayOf(now),
                              ![w].daily_used = DailyUsed(Visible(w), Sid(w), DayOf(now))]
    /\ txn' = [txn EXCEPT ![w] = TxnAfterQuery(w)]
    /\ rowLock' = LockAfterQuery(w)
    /\ pc' = [pc EXCEPT ![w] = After("daily_usage")]
    /\ UNCHANGED <<now, ticks, sessions, ledger, nextId,
                   req, quota_info, outcome, called, notQuota>>

\* _get_quota_info: the count of this month's rows; then _validate_quota_limits
MonthlyUsage(w) ==
    /\ pc[w] = "monthly_usage"
    /\ QueryOk(w)
    /\ LET q == QuotaInfo(local[w].daily_used,
                          MonthlyUsed(Visible(w), Sid(w), local[w].today))
           v == _validate_quota_limits(q)
       IN /\ quota_info' = [quota_info EXCEPT ![w] = q]
          /\ local' = [local EXCEPT ![w].quota_type = IF v = "ok" THEN "" ELSE v]
          /\ IF v # "ok" THEN Raise(w, "QuotaExceeded")
             ELSE /\ pc' = [pc EXCEPT ![w] = After("monthly_usage")]
                  /\ txn' = [txn EXCEPT ![w] = TxnAfterQuery(w)]
                  /\ rowLock' = LockAfterQuery(w)
                  /\ UNCHANGED outcome
    /\ UNCHANGED <<now, ticks, sessions, ledger, nextId,
                   req, called, notQuota>>

\* _record_request: add(new_request), flush; then the counters are advanced
RecordRequest(w) ==
    /\ pc[w] = "record_request"
    /\ FlushOk(w)
    /\ LET row == [id |-> nextId, session_id |-> Sid(w),
                   request_hash |-> RequestHash(w), created_at |-> now]
       IN /\ txn' = [txn EXCEPT ![w] = [Flushed(w) EXCEPT !.rows = @ \cup {row}]]
          /\ local' = [local EXCEPT ![w].new_request_id = nextId]
    /\ rowLock' = LockAfterFlush(w)
    /\ nextId' = nextId + 1
    /\ quota_info' = [quota_info EXCEPT ![w] = QuotaAfterRecord(quota_info[w])]
    /\ pc' = [pc EXCEPT ![w] = After("record_request")]
    /\ UNCHANGED <<now, ticks, sessions, ledger,
                   req, outcome, called, notQuota>>

\* db_session.commit(); the node returns and the conditional edge behind
\* check_quota is taken
Commit(w) ==
    /\ pc[w] = "commit"
    /\ FlushOk(w)
    /\ ledger' = ledger \cup txn[w].rows
    /\ sessions' = IF txn[w].new_session THEN sessions \cup {Sid(w)} ELSE sessions
    /\ rowLock' = Released(rowLock, w)
    /\ txn' = [txn EXCEPT ![w] = NoTxn]
    /\ local' = [local EXCEPT ![w] = mark_step_completed(
                                         [@ EXCEPT !.committed = (txn[w].rows # {})],
                                         "check_quota")]
    /\ IF After("commit") # "route"
       THEN /\ pc' = [pc EXCEPT ![w] = After("commit")]
            /\ UNCHANGED outcome
       ELSE IF _should_continue_after_quota(quota_info[w]) = "continue"
       THEN /\ pc' = [pc EXCEPT ![w] = "fetch_news"]
            /\ UNCHANGED outcome
       ELSE /\ pc' = [pc EXCEPT ![w] = "done"]
            /\ outcome' = [outcome EXCEPT ![w] = "ok"]
    /\ UNCHANGED <<now, ticks, nextId,
                   req, quota_info, called, notQuota>>

\* FetchNewsNode calls the search provider: it answers with articles, or the
\* retries are exhausted (SerperAPIError).
FetchNews(w) ==
    /\ pc[w] = "fetch_news"
    /\ called' = [called EXCEPT ![w].search = TRUE]
    /\ \E n \in {-1, 0, 2} :
         IF n < 0
         THEN /\ pc' = [pc EXCEPT ![w] = OnError("fetch_news")]
              /\ outcome' = [outcome EXCEPT ![w] =
                                IF @ = "none" THEN "SerperAPIError" ELSE @]
              /\ UNCHANGED local
         ELSE /\ pc' = [pc EXCEPT ![w] = After("fetch_news")]
              /\ local' = [local EXCEPT ![w] = mark_step_completed(
                                                   [@ EXCEPT !.articles = n], "fetch_news")]
              /\ UNCHANGED outcome
    /\ UNCHANGED <<now, ticks, sessions, ledger, nextId, rowLock,
                   req, txn, quota_info, notQuota>>

\* FilterArticlesNode.__call__ on the articles fetch_news left in the state:
\* it keeps them or, when none is good enough, none of them
FilterArticlesNode(w) ==
    /\ pc[w] = "filter_articles"
    /\ \E kept \in {0, local[w].articles} :
         local' = [local EXCEPT ![w] = mark_step_completed(
                                              [@ EXCEPT !.articles = kept], "filter_articles")]
    /\ pc' = [pc EXCEPT ![w] = After("filter_articles")]
    /\ UNCHANGED <<now, ticks, sessions, ledger, nextId, rowLock,
                   req, txn, quota_info, outcome, called, notQuota>>

\* SummarizeContentNode: with no article it returns at once; otherwise it
\* calls the language model, and fails when every provider failed.
SummarizeContent(w) ==
    /\ pc[w] = "summarize_content"
    /\ \E ok \in BOOLEAN :
         /\ local[w].articles = 0 => ok
         /\ called' = [called EXCEPT ![w].llm = (local[w].articles # 0)]
         /\ IF ok
            THEN /\ pc' = [pc EXCEPT ![w] = After("summarize_content")]
                 /\ local' = [local EXCEPT ![w] = mark_step_completed(@, "summarize_content")]
                 /\ UNCHANGED outcome
            ELSE /\ pc' = [pc EXCEPT ![w] = OnError("summarize_content")]
                 /\ outcome' = [outcome EXCEPT ![w] =
                                   IF @ = "none" THEN "LLMProviderError" ELSE @]
                 /\ UNCHANGED local
    /\ UNCHANGED <<now, ticks, sessions, ledger, nextId, rowLock,
                   req, txn, quota_info, notQuota>>

\* SaveResultsNode.__call__: with articles it writes them to the cache, which
\* can fail (DatabaseError); then END
SaveResultsNode(w) ==
    /\ pc[w] = "save_results"
    /\ \E ok \in BOOLEAN :
         /\ local[w].articles = 0 => ok
         /\ IF ok
            THEN /\ pc' = [pc EXCEPT ![w] = After("save_results")]
                 /\ local' = [local EXCEPT ![w] = mark_step_completed(@, "save_results")]
                 /\ outcome' = [outcome EXCEPT ![w] = IF @ = "none" THEN "ok" ELSE @]
            ELSE /\ pc' = [pc EXCEPT ![w] = OnError("save_results")]
                 /\ outcome' = [outcome EXCEPT ![w] =
                                   IF @ = "none" THEN "DatabaseError" ELSE @]
                 /\ UNCHANGED local
    /\ UNCHANGED <<now, ticks, sessions, ledger, nextId, rowLock,
                   req, txn, quota_info, called, notQuota>>

\* the response is sent; the worker takes the next request
Respond(w) ==
    /\ pc[w] = "done"
    /\ pc' = [pc EXCEPT ![w] = "idle"]
    /\ req' = [req EXCEPT ![w] = NoRequest]
    /\ local' = [local EXCEPT ![w] = NoLocal]
    /\ quota_info' = [quota_info EXCEPT ![w] = NoQuotaInfo]
    /\ outcome' = [outcome EXCEPT ![w] = "none"]
    /\ called' = [called EXCEPT ![w] = NoCalls]
    /\ UNCHANGED <<now, ticks, sessions, ledger, nextId, rowLock,
                   txn, notQuota>>

Next ==
    \/ \E d \in TickSteps : Tick(d)
    \/ \E w \in Workers, r \in RequestInputs : Submit(w, r)
    \/ \E w \in Workers : EnsureSession(w)
    \/ \E w \in Workers : InsertSession(w)
    \/ \E w \in Workers : CheckDuplicate(w)
    \/ \E w \in Workers : DailyUsage(w)
    \/ \E w \in Workers : MonthlyUsage(w)
    \/ \E w \in Workers : RecordRequest(w)
    \/ \E w \in Workers : Commit(w)
    \/ \E w \in Workers : FetchNews(w)
    \/ \E w \in Workers : FilterArticlesNode(w)
    \/ \E w \in Workers : SummarizeContent(w)
    \/ \E w \in Workers : SaveResultsNode(w)
    \/ \E w \in Workers : Respond(w)

Spec == Init /\ [][Next]_vars

\* A session that used its whole monthly quota on the thirty days before the
\* last day of the month, ten requests a day
MonthRows ==
    {[id |-> i, session_id |-> "s1",
      request_hash |-> _generate_request_hash(TopicEarlier,
                                              [iso |-> TRUE, day |-> StartDay], "s1"),
      created_at |-> ((i - 1) \div DAILY_QUOTA_LIMIT) * MinutesPerDay
                     + ((i - 1) % DAILY_QUOTA_LIMIT) * (OneHour + 1)] :
        i \in 1..MONTHLY_QUOTA_LIMIT}

MonthInit ==
    /\ now = StartNow
    /\ ticks = 0
    /\ sessions = {"s1"}
    /\ ledger = MonthRows
    /\ nextId = MONTHLY_QUOTA_LIMIT + 1
    /\ rowLock = [s \in SessionIds |-> Nobody]
    /\ pc = [w \in Workers |-> "idle"]
    /\ req = [w \in Workers |-> NoRequest]
    /\ txn = [w \in Workers |-> NoTxn]
    /\ local = [w \in Workers |-> NoLocal]
    /\ quota_info = [w \in Workers |-> NoQuotaInfo]
    /\ outcome = [w \in Workers |-> "none"]
    /\ called = [w \in Workers |-> NoCalls]
    /\ SumOff
    /\ FetchOff
    /\ RankOff
    /\ PostOff
    /\ CacheOff
    /\ HashOff
    /\ StateOff
    /\ StoreOff
    /\ DupOff

\* The workflow of Spec for a session at its monthly limit
MonthSpec == MonthInit /\ [][Next]_vars

(***************************************************************************)
(* SummarizeContentNode: one run over a batch of filtered articles.  An    *)
(* article is its snippet's length; an answer of the language model is the *)
(* length of the stripped text, or Raises when the call throws.            *)
(***************************************************************************)
max_retries == 2
retry_delay == 2
summary_max_length == 200
provider_order == <<"claude-3-5-sonnet", "gpt-4-turbo", "gemini-pro">>

Raises == -1
LLMAnswers == {Raises, 0, 120, 260}
SnippetLengths == {50, 300}

RECURSIVE SeqsUpTo(_, _)
SeqsUpTo(S, n) ==
    IF n = 0 THEN {<<>>}
    ELSE LET shorter == SeqsUpTo(S, n - 1)
         IN shorter \cup {Append(q, x) : q \in {t \in shorter : Len(t) = n - 1}, x \in S}

_get_provider_order(preferred_model) ==
    <<preferred_model>> \o SelectSeq(provider_order, LAMBDA p : p # preferred_model)

\* _initialize_llm_client raises when the provider's API key is not configured
\* or the provider is unknown
ClientInitFails(provider, keys) ==
    provider \notin keys \/ provider \notin {provider_order[i] : i \in DOMAIN provider_order}

\* Variant: only the provider now tried is kept
TriedAfter_latest(tried, provider) == <<provider>>

\* providers_tried.append(provider)
TriedAfter(tried, provider) == Append(tried, provider)

\* summary[:summary_max_length - 3] + "..."
Truncated(len) == IF len > summary_max_length THEN (summary_max_length - 3) + 3 ELSE len

\* Variant: the snippet is kept whole
FallbackSummary_whole(snippet) == snippet

\* article.get("summary", "")[:summary_max_length]
FallbackSummary(snippet) == IF snippet > summary_max_length THEN summary_max_length ELSE snippet

\* Variant: the same delay before every retry
RetryDelay_constant(attempt) == retry_delay

\* retry_delay * (2 ** attempt)
RetryDelay(attempt) == retry_delay * (2 ^ attempt)

\* Variant: a summary is put in front of the ones made before
SummaryOf_first(i, by, len) == [article |-> 1, by |-> by, len |-> len]

\* summarized_article = article.copy() with its summary, appended
SummaryOf(i, by, len) == [article |-> i, by |-> by, len |-> len]

Order == _get_provider_order(sum_in.llm_model)

SumInit ==
    /\ QuotaInit
    /\ FetchOff
    /\ RankOff
    /\ PostOff
    /\ CacheOff
    /\ HashOff
    /\ StateOff
    /\ StoreOff
    /\ DupOff
    /\ spc = "start"
    /\ sum_in \in [llm_model : valid_models,
                   keys : SUBSET valid_models,
                   articles : SeqsUpTo(SnippetLengths, MaxArticles)]
    /\ sum_idx = 0
    /\ providers_tried = <<>>
    /\ summarized = <<>>
    /\ sum_attempt = 0
    /\ sum_calls = 0
    /\ sum_delays = <<>>
    /\ current_llm_provider = sum_in.llm_model
    /\ sum_result = "none"
    /\ last_error = NoError
    /\ sum_error = NoError

\* __call__: without articles the node returns at once
SumCall ==
    /\ spc = "start"
    /\ IF sum_in.articles = <<>>
       THEN /\ spc' = "finished"
            /\ sum_result' = "ok"
            /\ sum_idx' = sum_idx
       ELSE /\ spc' = "try_provider"
            /\ sum_idx' = 1
            /\ UNCHANGED sum_result
    /\ UNCHANGED <<sum_in, providers_tried, summarized, sum_attempt, sum_calls,
                   sum_delays, current_llm_provider, last_error, sum_error, notSum>>

\* LLMProviderError("all_providers", "All LLM providers failed. Last error:
\* {last_error}"): the message holds the text of the last error only
AllProvidersFailed(last) == LLMProviderError("all_providers", last.named)

\* _summarize_with_fallback: the next provider of the order is noted and its
\* client initialized; after the last provider has failed the node raises
TryProvider ==
    /\ spc = "try_provider"
    /\ IF sum_idx > Len(Order)
       THEN /\ spc' = "finished"
            /\ sum_result' = "LLMProviderError"
            /\ sum_error' = AllProvidersFailed(last_error)
            /\ UNCHANGED <<sum_idx, providers_tried, last_error>>
       ELSE /\ providers_tried' = TriedAfter(providers_tried, Order[sum_idx])
            /\ IF ClientInitFails(Order[sum_idx], sum_in.keys)
               THEN /\ sum_idx' = sum_idx + 1
                    /\ last_error' = LLMProviderError(Order[sum_idx], {Order[sum_idx]})
                    /\ UNCHANGED spc
               ELSE /\ spc' = "summarize"
                    /\ UNCHANGED <<sum_idx, last_error>>
            /\ UNCHANGED <<sum_result, sum_error>>
    /\ summarized' = <<>>
    /\ sum_attempt' = 0
    /\ sum_calls' = 0
    /\ sum_delays' = <<>>
    /\ UNCHANGED <<sum_in, current_llm_provider, notSum>>

\* _generate_single_summary: one ainvoke for the article in turn.  A failed
\* attempt is retried after the delay; the last failure is caught by
\* _generate_summaries, which keeps the article with its snippet cut short.
InvokeLLM(answer) ==
    /\ spc = "summarize"
    /\ Len(summarized) < Len(sum_in.articles)
    /\ sum_calls' = sum_calls + 1
    /\ LET i == Len(summarized) + 1 IN
       IF answer # Raises /\ answer > 0
       THEN /\ summarized' = Append(summarized, SummaryOf(i, "llm", Truncated(answer)))
            /\ sum_attempt' = 0
            /\ sum_delays' = <<>>
       ELSE IF sum_attempt < max_retries
       THEN /\ sum_attempt' = sum_attempt + 1
            /\ sum_delays' = Append(sum_delays, RetryDelay(sum_attempt))
            /\ UNCHANGED summarized
       ELSE /\ summarized' = Append(summarized,
                                    SummaryOf(i, "snippet", FallbackSummary(sum_in.articles[i])))
            /\ sum_attempt' = 0
            /\ sum_delays' = <<>>
    /\ UNCHANGED <<spc, sum_in, sum_idx, providers_tried, current_llm_provider,
                   sum_result, last_error, sum_error, notSum>>

\* _generate_summaries ends: an empty result raises, and the exception makes
\* _summarize_with_fallback go on to the next provider; otherwise the
\* articles are returned and __call__ notes the providers.
ReturnSummaries ==
    /\ spc = "summarize"
    /\ Len(summarized) = Len(sum_in.articles)
    /\ IF summarized = <<>>
       THEN /\ spc' = "try_provider"
            /\ sum_idx' = sum_idx + 1
            /\ last_error' = LLMProviderError(Order[sum_idx], {Order[sum_idx]})
            /\ UNCHANGED <<current_llm_provider, sum_result>>
       ELSE /\ spc' = "finished"
            /\ sum_result' = "ok"
            /\ current_llm_provider' =
                  IF providers_tried # <<>> THEN providers_tried[Len(providers_tried)]
                  ELSE sum_in.llm_model
            /\ UNCHANGED <<sum_idx, last_error>>
    /\ UNCHANGED <<sum_in, providers_tried, summarized, sum_attempt, sum_calls,
                   sum_delays, sum_error, notSum>>

SumNext ==
    \/ SumCall
    \/ TryProvider
    \/ \E answer \in LLMAnswers : InvokeLLM(answer)
    \/ ReturnSummaries

SumSpec == SumInit /\ [][SumNext]_vars

\* The node is a coroutine that is run to its end: a call of the model
\* returns or raises, and asyncio.sleep returns
SumFairSpec == SumSpec /\ WF_vars(SumNext)

(***************************************************************************)
(* The news fetcher's retry loop (FetchNewsNode._fetch_with_retry).        *)
(***************************************************************************)
fetch_max_retries == 3

fetch_retry_delay == 1

\* What one _make_api_call can end with: the parsed articles, or a
\* SerperAPIError for a timeout, a request error, a status other than 200 or
\* anything else; without an API key it raises before any request is sent.
ApiFailures == {"timeout", "request_error", "status", "unexpected"}

ApiOutcomes == {"ok"} \cup ApiFailures

MakeApiCallOutcomes == IF fetch_key THEN ApiOutcomes ELSE {"no_key"}

\* Variant: the same delay before every retry
FetchRetryDelay_flat(attempt) == fetch_retry_delay

\* delay = self.retry_delay * (2 ** attempt)
FetchRetryDelay(attempt) == fetch_retry_delay * (2 ^ attempt)

FetchInit ==
    /\ QuotaInit
    /\ SumOff
    /\ RankOff
    /\ PostOff
    /\ CacheOff
    /\ HashOff
    /\ StateOff
    /\ StoreOff
    /\ DupOff
    /\ fpc = "start"
    /\ fetch_key \in BOOLEAN
    /\ fetch_attempt = 0
    /\ fetch_outcomes = <<>>
    /\ fetch_delays = <<>>
    /\ fetch_result = "none"

\* _fetch_with_retry is entered: attempt 0 of range(max_retries + 1)
FetchBegin ==
    /\ fpc = "start"
    /\ fpc' = "call"
    /\ fetch_attempt' = 0
    /\ UNCHANGED <<fetch_key, fetch_outcomes, fetch_delays, fetch_result, notFetch>>

\* One pass of the loop: the call returns the articles, or raises; after a
\* failure the loop sleeps if a retry is left and otherwise raises
MakeApiCall(result) ==
    /\ fpc = "call"
    /\ result \in MakeApiCallOutcomes
    /\ fetch_outcomes' = Append(fetch_outcomes, result)
    /\ IF result = "ok"
       THEN /\ fpc' = "finished"
            /\ fetch_result' = "ok"
            /\ UNCHANGED fetch_delays
       ELSE IF fetch_attempt < fetch_max_retries
       THEN /\ fpc' = "sleep"
            /\ fetch_delays' = Append(fetch_delays, FetchRetryDelay(fetch_attempt))
            /\ UNCHANGED fetch_result
       ELSE /\ fpc' = "finished"
            /\ fetch_result' = "SerperAPIError"
            /\ UNCHANGED fetch_delays
    /\ UNCHANGED <<fetch_key, fetch_attempt, notFetch>>

\* await asyncio.sleep(delay), then the next attempt of the loop
FetchSleep ==
    /\ fpc = "sleep"
    /\ fpc' = "call"
    /\ fetch_attempt' = fetch_attempt + 1
    /\ UNCHANGED <<fetch_key, fetch_outcomes, fetch_delays, fetch_result, notFetch>>

FetchNext ==
    \/ FetchBegin
    \/ \E result \in ApiOutcomes \cup {"no_key"} : MakeApiCall(result)
    \/ FetchSleep

FetchSpec == FetchInit /\ [][FetchNext]_vars

(***************************************************************************)
(* The article ranker (FilterArticlesNode).  A text is a sequence of       *)
(* pieces: words, single spaces and parts of URLs.  Scores and the         *)
(* priority weight are counted in thousandths.                             *)
(***************************************************************************)
min_title_length == 10

min_snippet_length == 20

PieceLen(piece) ==
    CASE piece = " " -> 1
      [] piece = "AI" -> 2
      [] piece = "ai" -> 2
      [] piece = "Breaking" -> 8
      [] piece = "breaking" -> 8
      [] piece = "Rates" -> 5
      [] piece = "rally" -> 5
      [] piece = "Markets" -> 7
      [] piece = "decision" -> 8
      [] piece = "Daily" -> 5
      [] piece = "Wire" -> 4
      [] piece = "a-report-of-thirty-characters" -> 30
      [] piece = "http://a.com/?r=" -> 16
      [] piece = "http://b.com/x" -> 14
      [] piece = "http://www.c.com/y" -> 18
      [] piece = "http://d.com/z" -> 14
      [] OTHER -> 1

RECURSIVE TextLen(_)
TextLen(text) == IF text = <<>> THEN 0 ELSE PieceLen(Head(text)) + TextLen(Tail(text))

\* str.lower()
LowerPiece(piece) ==
    CASE piece = "AI" -> "ai"
      [] piece = "Breaking" -> "breaking"
      [] piece = "Rates" -> "rates"
      [] piece = "Markets" -> "markets"
      [] piece = "Daily" -> "daily"
      [] piece = "Wire" -> "wire"
      [] piece = "C.com" -> "c.com"
      [] piece = "Details" -> "details"
      [] piece = "DETAILS" -> "details"
      [] piece = "Source" -> "source"
      [] piece = "Analysis" -> "analysis"
      [] piece = "Report" -> "report"
      [] piece = "Data" -> "data"
      [] piece = "Study" -> "study"
      [] OTHER -> piece

LowerText(text) == [i \in DOMAIN text |-> LowerPiece(text[i])]

\* keyword in text
Contains(text, piece) == \E i \in DOMAIN text : text[i] = piece

\* urlparse(url).netloc
Netloc(url) ==
    IF url = <<>> THEN <<>>
    ELSE CASE Head(url) = "http://a.com/?r=" -> <<"a.com">>
           [] Head(url) = "http://b.com/x" -> <<"b.com">>
           [] Head(url) = "http://www.c.com/y" -> <<"www.", "c.com">>
           [] Head(url) = "http://d.com/z" -> <<"d.com">>
           [] OTHER -> <<>>

\* domain.replace("www.", "")
StripWww(domain) == SelectSeq(domain, LAMBDA piece : piece # "www.")

\* hashlib.md5(text.encode()).hexdigest(): one digest per text
md5(text) == <<"md5", text>>

\* dict.get(key, default)
Get(article, key, default) == IF key \in DOMAIN article THEN article[key] ELSE default

RawArticle(title, url, snippet, source) ==
    [title |-> title, url |-> url, snippet |-> snippet, source |-> source]

LongSnippet == <<"a-report-of-thirty-characters">>

\* The candidate articles the search can return
Candidates ==
    { RawArticle(<<"Breaking", " ", "AI">>, <<"http://b.com/x">>,
                 LongSnippet \o <<" ", "ai">>, <<"Wire">>),
      RawArticle(<<"breaking", " ", "ai", " ">>, <<"http://www.c.com/y">>,
                 LongSnippet, <<"Wire">>),
      RawArticle(<<"Markets", " ", "rally">>, <<"http://www.c.com/y">>,
                 LongSnippet, <<"AI", " ", "Daily">>),
      RawArticle(<<"Rates", " ", "decision">>, <<"http://d.com/z">>,
                 LongSnippet, <<"Wire">>),
      RawArticle(<<"Breaking", " ", "AI", "http://a.com/?r=">>, <<"http://b.com/x">>,
                 LongSnippet, <<"Wire">>),
      RawArticle(<<"Breaking", " ", "AI">>, <<"http://a.com/?r=", "http://b.com/x">>,
                 LongSnippet, <<"Wire">>),
      RawArticle(<<"AI">>, <<"http://d.com/z">>, LongSnippet, <<"Wire">>) }

\* _parse_serper_response: "position": item.get("position", 0)
WithPositions(articles, ranked) ==
    [i \in DOMAIN articles |-> articles[i] @@ [position |-> IF ranked THEN i ELSE 0]]

\* The topic_configs rows a topic can resolve to
TopicConfigs ==
    { NoConfig,
      [found |-> TRUE, keywords |-> <<>>, trustedSources |-> <<"c.com">>, priorityWeight |-> 1500],
      [found |-> TRUE, keywords |-> <<>>, trustedSources |-> <<"C.com">>, priorityWeight |-> 1000],
      [found |-> TRUE, keywords |-> <<"AI">>, trustedSources |-> <<"c.com">>, priorityWeight |-> 1500] }

Limits == {1, 2, MAX_NEWS_ARTICLES}

_filter_by_quality(articles) ==
    SelectSeq(articles, LAMBDA article :
        /\ article.title # <<>>
        /\ article.url # <<>>
        /\ TextLen(article.title) >= min_title_length
        /\ TextLen(article.snippet) >= min_snippet_length
        /\ Netloc(article.url) # <<>>)

RECURSIVE Deduplicate(_, _, _)
Deduplicate(articles, seen_urls, seen_titles) ==
    IF articles = <<>> THEN <<>>
    ELSE LET article == Head(articles)
             title_hash == md5(Strip(LowerText(article.title)))
         IN IF article.url \in seen_urls \/ title_hash \in seen_titles
            THEN Deduplicate(Tail(articles), seen_urls, seen_titles)
            ELSE <<article>> \o Deduplicate(Tail(articles), seen_urls \cup {article.url},
                                            seen_titles \cup {title_hash})

_remove_duplicates(articles) == Deduplicate(articles, {}, {})

\* One keyword's share: 0.4 for the title, 0.2 for the snippet, 0.1 for the
\* source
KeywordScore(article, keyword) ==
    LET keyword_lower == LowerPiece(keyword) IN
    (IF Contains(LowerText(article.title), keyword_lower) THEN 400 ELSE 0)
    + (IF Contains(LowerText(article.snippet), keyword_lower) THEN 200 ELSE 0)
    + (IF Contains(LowerText(article.source), keyword_lower) THEN 100 ELSE 0)

RECURSIVE KeywordsScore(_, _)
KeywordsScore(article, keywords) ==
    IF keywords = <<>> THEN 0
    ELSE KeywordScore(article, Head(keywords)) + KeywordsScore(article, Tail(keywords))

AtMost(a, b) == IF a < b THEN a ELSE b

\* Variant: without keywords the sum of the matches, zero, is the score
_calculate_relevance_scores_summed(articles, config) ==
    [i \in DOMAIN articles |->
        articles[i] @@ [relevance_score |->
            IF config.keywords = <<>> THEN 0
            ELSE AtMost(KeywordsScore(articles[i], config.keywords) \div Len(config.keywords),
                        1000)]]

_calculate_relevance_scores(articles, config) ==
    [i \in DOMAIN articles |->
        articles[i] @@ [relevance_score |->
            IF ~config.found \/ config.keywords = <<>> THEN 500
            ELSE AtMost(KeywordsScore(articles[i], config.keywords) \div Len(config.keywords),
                        1000)]]

\* trusted_source.lower() in domain, for one of the trusted sources
IsTrusted(url, trusted_sources) ==
    LET domain == StripWww(LowerText(Netloc(url)))
    IN \E k \in DOMAIN trusted_sources : Contains(domain, LowerPiece(trusted_sources[k]))

_filter_by_source_priority(articles, config) ==
    IF ~config.found \/ config.trustedSources = <<>> THEN articles
    ELSE [i \in DOMAIN articles |->
            IF IsTrusted(articles[i].url, config.trustedSources)
            THEN [trusted_source |-> TRUE,
                  relevance_score |->
                      AtMost((Get(articles[i], "relevance_score", 0) * config.priorityWeight)
                                 \div 1000, 1000)] @@ articles[i]
            ELSE [trusted_source |-> FALSE] @@ articles[i]]

\* Variant: the score alone is the key
SortKey_score(article) == <<Get(article, "relevance_score", 0), 0, 0>>

\* key=lambda x: (relevance_score, trusted_source, -position)
SortKey(article) ==
    <<Get(article, "relevance_score", 0),
      IF Get(article, "trusted_source", FALSE) THEN 1 ELSE 0,
      0 - Get(article, "position", 999)>>

\* Tuples compare item by item
TupleLess(a, b) ==
    \/ a[1] < b[1]
    \/ a[1] = b[1] /\ a[2] < b[2]
    \/ a[1] = b[1] /\ a[2] = b[2] /\ a[3] < b[3]

\* sorted(..., reverse=True): the greatest key first, equal keys in their
\* given order
RECURSIVE SortedReverse(_)
SortedReverse(articles) ==
    IF articles = <<>> THEN <<>>
    ELSE LET first == CHOOSE i \in DOMAIN articles :
                         /\ \A j \in DOMAIN articles :
                               ~TupleLess(SortKey(articles[i]), SortKey(articles[j]))
                         /\ \A j \in 1..(i - 1) :
                               TupleLess(SortKey(articles[j]), SortKey(articles[i]))
         IN <<articles[first]>>
            \o SortedReverse(SubSeq(articles, 1, first - 1)
                             \o SubSeq(articles, first + 1, Len(articles)))

\* Variant: nothing is cut
Limited_all(articles, limit) == articles

\* sorted_articles[:limit]
Limited(articles, limit) == SubSeq(articles, 1, AtMost(limit, Len(articles)))

_rank_and_limit_articles(articles, limit) == Limited(SortedReverse(articles), limit)

NewsArticle(article) ==
    [title |-> Get(article, "title", <<>>),
     url |-> Get(article, "url", <<>>),
     source |-> IF Netloc(Get(article, "url", <<>>)) # <<>>
                THEN StripWww(Netloc(Get(article, "url", <<>>)))
                ELSE Get(article, "source", <<>>),
     summary |-> Get(article, "snippet", <<>>),
     relevance_score |-> Get(article, "relevance_score", 0),
     content_hash |-> md5(Get(article, "title", <<>>) \o Get(article, "url", <<>>))]

_convert_to_news_articles(articles) == [i \in DOMAIN articles |-> NewsArticle(articles[i])]

\* The articles the ranking works on
Ranked(raw_articles, config, limit) ==
    _rank_and_limit_articles(
        _filter_by_source_priority(
            _calculate_relevance_scores(
                _remove_duplicates(_filter_by_quality(raw_articles)), config), config), limit)

RankInit ==
    /\ QuotaInit
    /\ SumOff
    /\ FetchOff
    /\ PostOff
    /\ CacheOff
    /\ HashOff
    /\ StateOff
    /\ StoreOff
    /\ DupOff
    /\ rpc = "start"
    /\ \E articles \in SeqsUpTo(Candidates, MaxRaw), ranked \in BOOLEAN, limit \in Limits :
          rank_in = [raw_articles |-> WithPositions(articles, ranked), top_n |-> limit]
    /\ topic_config = NoConfig
    /\ final_articles = <<>>
    /\ filtered_articles = <<>>

\* __call__ without raw articles: nothing is loaded, nothing is filtered
NoArticlesToFilter ==
    /\ rpc = "start"
    /\ rank_in.raw_articles = <<>>
    /\ rpc' = "finished"
    /\ UNCHANGED <<rank_in, topic_config, final_articles, filtered_articles, notRank>>

\* _load_topic_config: the row of the topic, of a common topic, or None
LoadTopicConfig(config) ==
    /\ rpc = "start"
    /\ rank_in.raw_articles # <<>>
    /\ rpc' = "loaded"
    /\ topic_config' = config
    /\ UNCHANGED <<rank_in, final_articles, filtered_articles, notRank>>

\* __call__ after the configuration is loaded: quality, duplicates, scores,
\* trusted sources, ranking and conversion
FilterArticles ==
    /\ rpc = "loaded"
    /\ rpc' = "finished"
    /\ final_articles' = Ranked(rank_in.raw_articles, topic_config, rank_in.top_n)
    /\ filtered_articles' = _convert_to_news_articles(final_articles')
    /\ UNCHANGED <<rank_in, topic_config, notRank>>

RankNext ==
    \/ NoArticlesToFilter
    \/ \E config \in TopicConfigs : LoadTopicConfig(config)
    \/ FilterArticles

RankSpec == RankInit /\ [][RankNext]_vars

(***************************************************************************)
(* Post composition: PostWorkflow with LinkedInPostNode and XPostNode, and *)
(* StatelessPostWorkflow with its own two nodes.  A text is known by its   *)
(* length; a draft for X also by the length of the run of hashtags it ends *)
(* with, by whether it holds a "#", a URL or a word a URL can hang on.     *)
(***************************************************************************)
LINKEDIN_MAX_CHAR_LIMIT == 3000

X_MAX_CHAR_LIMIT == 250

\* StatelessXPostNode: if len(x_content) > 280
stateless_x_limit == 280

\* len(text[:k])
Slice(len, k) == IF k >= 0 THEN AtMost(len, k) ELSE IF len + k > 0 THEN len + k ELSE 0

\* A topic: its length, the spaces in it, and the length of the hashtag text
\* _generate_hashtags joins for it ("#AI #ArtificialIntelligence", or the
\* default "#Tech #News")
PostTopics == {[len |-> 2, spaces |-> 0, tags |-> 27], [len |-> 100, spaces |-> 10, tags |-> 11]}

\* An article: the lengths of its title, summary and URL
PostArticles ==
    {[title |-> 60, summary |-> 150, url |-> 40],
     [title |-> 200, summary |-> 90, url |-> 0],
     [title |-> 3000, summary |-> 50, url |-> 230]}

\* self.llm_providers, by the API keys that are set
\* topic = "": the hashtags are those of the default entry
EmptyTopic == [len |-> 0, spaces |-> 0, tags |-> 11]

ProviderSets == {{}, {"claude-3-5-sonnet", "claude-3-5-haiku"}, {"gpt-4-turbo"}}

PostModel == "claude-3-5-sonnet"

\* llm_providers.get(llm_model), or the first available provider
ProviderFor(providers) ==
    IF PostModel \in providers THEN PostModel ELSE CHOOSE provider \in providers : TRUE

\* What the model can answer for LinkedIn: the length of the stripped text
LinkedInDrafts == {800, 3000, 3001, 5000}

\* What the model can answer for X
XDrafts ==
    [body : {40, 200, 205, 260}, tags : {0, 12, 248}, url : {0, 40},
     words : {{}, {"DETAILS"}, {"details", "Source"}, {"Source"}}]

\* How a text holds a URL: not at all, as the draft wrote it, shortened,
\* as a link on a word, after " Details: ", bare at the end, or after a cut
Url(how, on) == [how |-> how, on |-> on]

Text(body, tags, hash, url) == [body |-> body, tags |-> tags, hash |-> hash, url |-> url]

\* embed_phrases: the words a URL can be hung on, in the order they are tried
embed_words == <<"Details", "story", "more", "Source", "Analysis", "Report", "Data", "Study">>

\* embed_word.lower() in content.lower()
InContent(embed_word, words) == \E word \in words : LowerPiece(word) = LowerPiece(embed_word)

TextLength(text) == text.body + text.tags

\* The generic post: 178 characters around the topic, which is written once
\* as it is and once without its whitespace
GenericLinkedInLength(topic) == 178 + topic.len + (topic.len - topic.spaces)

\* generated_content[:MAX_CHAR_LIMIT - 3] + "..."
LinkedInLength(draft) ==
    IF draft > LINKEDIN_MAX_CHAR_LIMIT THEN Slice(draft, LINKEDIN_MAX_CHAR_LIMIT - 3) + 3
    ELSE draft

\* The first URL of the draft is replaced by its short form
Shortened(text, url, short) ==
    Text((text.body - url) + short, text.tags, text.hash, Url("short", ""))

\* Variant: the words of the text are not looked at
_handle_url_gracefully_appending(text, words, articles) ==
    LET primary_url == IF articles = <<>> THEN 0 ELSE articles[1].url
        len == TextLength(text)
        available_space == X_MAX_CHAR_LIMIT - primary_url - 4
    IN IF primary_url = 0 THEN text
       ELSE IF len + 10 + primary_url <= X_MAX_CHAR_LIMIT
            THEN Text(len + 10 + primary_url, 0, text.hash, Url("labelled", ""))
       ELSE IF len + primary_url + 1 <= X_MAX_CHAR_LIMIT
            THEN Text(len + 1 + primary_url, 0, text.hash, Url("bare", ""))
       ELSE IF available_space > 50
            THEN Text(Slice(len, available_space) + 4 + primary_url, 0,
                      text.hash /\ available_space > text.body, Url("after_cut", ""))
       ELSE text

\* Variant: the text is never cut for the URL
_handle_url_gracefully_uncut(text, words, articles) ==
    LET primary_url == IF articles = <<>> THEN 0 ELSE articles[1].url
        len == TextLength(text)
    IN IF primary_url = 0 THEN text
       ELSE IF \E i \in DOMAIN embed_words : InContent(embed_words[i], words)
            THEN LET first == CHOOSE i \in DOMAIN embed_words :
                                 /\ InContent(embed_words[i], words)
                                 /\ \A j \in 1..(i - 1) : ~InContent(embed_words[j], words)
                 IN Text(text.body + 4 + primary_url, text.tags, text.hash,
                         Url("anchored", embed_words[first]))
       ELSE IF len + 10 + primary_url <= X_MAX_CHAR_LIMIT
            THEN Text(len + 10 + primary_url, 0, text.hash, Url("labelled", ""))
       ELSE IF len + primary_url + 1 <= X_MAX_CHAR_LIMIT
            THEN Text(len + 1 + primary_url, 0, text.hash, Url("bare", ""))
       ELSE text

\* _handle_url_gracefully
_handle_url_gracefully(text, words, articles) ==
    LET primary_url == IF articles = <<>> THEN 0 ELSE articles[1].url
        len == TextLength(text)
        available_space == X_MAX_CHAR_LIMIT - primary_url - 4
    IN IF primary_url = 0 THEN text
       ELSE IF \E i \in DOMAIN embed_words : InContent(embed_words[i], words)
            THEN LET first == CHOOSE i \in DOMAIN embed_words :
                                 /\ InContent(embed_words[i], words)
                                 /\ \A j \in 1..(i - 1) : ~InContent(embed_words[j], words)
                 IN Text(text.body + 4 + primary_url, text.tags, text.hash,
                         Url("anchored", embed_words[first]))
       ELSE IF len + 10 + primary_url <= X_MAX_CHAR_LIMIT
            THEN Text(len + 10 + primary_url, 0, text.hash, Url("labelled", ""))
       ELSE IF len + primary_url + 1 <= X_MAX_CHAR_LIMIT
            THEN Text(len + 1 + primary_url, 0, text.hash, Url("bare", ""))
       ELSE IF available_space > 50
            THEN Text(Slice(len, available_space) + 4 + primary_url, 0,
                      text.hash /\ available_space > text.body, Url("after_cut", ""))
       ELSE text

\* Hashtags of the topic are added when the text holds no "#" and they fit
WithHashtags(text, topic) ==
    IF ~text.hash /\ TextLength(text) + topic.tags + 1 <= X_MAX_CHAR_LIMIT
    THEN Text(TextLength(text), topic.tags + 1, TRUE, text.url)
    ELSE text

\* The cut to the limit, which tries to keep the hashtags the text ends with
XTruncated(text) ==
    IF TextLength(text) > X_MAX_CHAR_LIMIT
    THEN IF text.tags > 0
         THEN Slice(text.body, X_MAX_CHAR_LIMIT - text.tags - 3) + 3 + text.tags
         ELSE Slice(TextLength(text), X_MAX_CHAR_LIMIT - 3) + 3
    ELSE TextLength(text)

\* XPostNode.__call__ from the answer of the model to the text with its URL
XWithUrl(draft, short, articles) ==
    LET answer == Text(draft.body, draft.tags, draft.tags > 0,
                       Url(IF draft.url > 0 THEN "draft" ELSE "none", ""))
    IN IF draft.url > 0
       THEN IF short > 0 THEN Shortened(answer, draft.url, short) ELSE answer
       ELSE _handle_url_gracefully(answer, draft.words, articles)

\* XPostNode.__call__ from the answer of the model to the final length
XLength(draft, short, articles, topic) ==
    XTruncated(WithHashtags(XWithUrl(draft, short, articles), topic))

RECURSIVE TitleLines(_, _)
TitleLines(articles, shown) ==
    IF articles = <<>> \/ shown = 0 THEN 0
    ELSE 4 + Head(articles).title + TitleLines(Tail(articles), shown - 1)

\* StatelessLinkedInPostNode: a line with the topic, the titles of the first
\* three articles, the hashtags
StatelessLinkedInLength(articles, topic) ==
    (27 + topic.len) + TitleLines(articles, 3) + (24 + (topic.len - topic.spaces))

\* StatelessXPostNode
StatelessXLength(articles, topic) ==
    LET x_content ==
            IF articles # <<>>
            THEN 23 + articles[1].title + AtMost(articles[1].summary, 100)
                 + (topic.len - topic.spaces)
            ELSE 34 + topic.len + (topic.len - topic.spaces)
    IN IF x_content > stateless_x_limit THEN Slice(x_content, stateless_x_limit - 3) + 3
       ELSE x_content

Post(char_count, generic) ==
    [made |-> TRUE, char_count |-> char_count, generic |-> generic, topic |-> TRUE]

\* The calls of execute: what the posts route lets through, and for the
\* stateless workflow also an empty topic, an unknown model and an empty
\* session id
PostInputs ==
    [workflow : {"PostWorkflow", "StatelessPostWorkflow"},
     articles : SeqsUpTo(PostArticles, MaxArticles),
     topic : PostTopics,
     providers : ProviderSets,
     llm_model : {PostModel},
     session_id : {"s1"}]
    \cup
    [workflow : {"StatelessPostWorkflow"},
     articles : SeqsUpTo(PostArticles, MaxArticles),
     topic : PostTopics \cup {EmptyTopic},
     providers : {{}},
     llm_model : {PostModel, "invalid-model"},
     session_id : {"s1", ""}]

PostInit ==
    /\ QuotaInit
    /\ SumOff
    /\ FetchOff
    /\ RankOff
    /\ CacheOff
    /\ HashOff
    /\ StateOff
    /\ StoreOff
    /\ DupOff
    /\ ppc = "start"
    /\ post_in \in PostInputs
    /\ linkedin_post = NoPost
    /\ x_post = NoPost
    /\ post_calls = <<>>
    /\ error_message = ""
    /\ x_steps = NoSteps
    /\ generated_posts = {}

\* PostWorkflow.execute up to the graph: an empty article list is refused
PostExecute ==
    /\ ppc = "start"
    /\ post_in.workflow = "PostWorkflow"
    /\ IF post_in.articles = <<>>
       THEN /\ ppc' = "finished"
            /\ error_message' = "No articles provided for post generation"
       ELSE /\ ppc' = "generate_linkedin_post"
            /\ UNCHANGED error_message
    /\ UNCHANGED <<post_in, linkedin_post, x_post, post_calls, x_steps, generated_posts, notPost>>

\* StatelessPostWorkflow.execute up to the graph
StatelessExecute ==
    /\ ppc = "start"
    /\ post_in.workflow = "StatelessPostWorkflow"
    /\ ppc' = "generate_linkedin_post"
    /\ UNCHANGED <<post_in, linkedin_post, x_post, post_calls, error_message, x_steps, generated_posts, notPost>>

\* LinkedInPostNode.__call__; draft 0 stands for a call that raises
LinkedInPost(draft) ==
    /\ ppc = "generate_linkedin_post"
    /\ post_in.workflow = "PostWorkflow"
    /\ ppc' = "generate_x_post"
    /\ IF post_in.articles = <<>>
       THEN /\ linkedin_post' = Post(GenericLinkedInLength(post_in.topic), TRUE)
            /\ UNCHANGED <<post_calls, error_message>>
       ELSE IF post_in.providers = {}
       THEN /\ error_message' = "Failed to generate LinkedIn post"
            /\ UNCHANGED <<linkedin_post, post_calls>>
       ELSE /\ post_calls' = Append(post_calls, ProviderFor(post_in.providers))
            /\ IF draft = 0
               THEN /\ error_message' = "Failed to generate LinkedIn post"
                    /\ UNCHANGED linkedin_post
               ELSE /\ linkedin_post' = Post(LinkedInLength(draft), FALSE)
                    /\ UNCHANGED error_message
    /\ UNCHANGED <<post_in, x_post, x_steps, generated_posts, notPost>>

\* XPostNode.__call__; failed stands for a call of the model that raises,
\* short for the length of the short URL (0: the URL is not shortened)
XPost(draft, short, failed) ==
    /\ ppc = "generate_x_post"
    /\ post_in.workflow = "PostWorkflow"
    /\ ppc' = "save_posts"
    /\ IF post_in.providers = {}
       THEN /\ error_message' = "Failed to generate X post"
            /\ UNCHANGED <<x_post, post_calls, x_steps>>
       ELSE /\ post_calls' = Append(post_calls, ProviderFor(post_in.providers))
            /\ IF failed
               THEN /\ error_message' = "Failed to generate X post"
                    /\ UNCHANGED <<x_post, x_steps>>
               ELSE /\ x_post' = Post(XLength(draft, short, post_in.articles, post_in.topic),
                                      FALSE)
                    /\ x_steps' = [draft |-> draft,
                                   with_url |-> XWithUrl(draft, short, post_in.articles)]
                    /\ UNCHANGED error_message
    /\ UNCHANGED <<post_in, linkedin_post, generated_posts, notPost>>

\* StatelessLinkedInPostNode.execute_with_external_state
StatelessLinkedInPost ==
    /\ ppc = "generate_linkedin_post"
    /\ post_in.workflow = "StatelessPostWorkflow"
    /\ ppc' = "generate_x_post"
    /\ linkedin_post' = Post(StatelessLinkedInLength(post_in.articles, post_in.topic),
                             post_in.articles = <<>>)
    /\ UNCHANGED <<post_in, x_post, post_calls, error_message, x_steps, generated_posts, notPost>>

\* StatelessXPostNode.execute_with_external_state
StatelessXPost ==
    /\ ppc = "generate_x_post"
    /\ post_in.workflow = "StatelessPostWorkflow"
    /\ ppc' = "save_posts"
    /\ x_post' = Post(StatelessXLength(post_in.articles, post_in.topic), post_in.articles = <<>>)
    /\ UNCHANGED <<post_in, linkedin_post, post_calls, error_message, x_steps, generated_posts, notPost>>

\* The kinds of post the state holds
Generated == {kind \in {"linkedin", "x"} :
                 IF kind = "linkedin" THEN linkedin_post.made ELSE x_post.made}

\* SavePostsNode.__call__, and the end of execute: the posts the state holds
\* are written in one transaction; without any post, or when the database
\* fails (saved = FALSE), the node reports an error
SavePosts(saved) ==
    /\ ppc = "save_posts"
    /\ post_in.workflow = "PostWorkflow"
    /\ ppc' = "finished"
    /\ IF Generated = {}
       THEN /\ error_message' = "No posts generated to save"
            /\ UNCHANGED generated_posts
       ELSE IF saved
       THEN /\ generated_posts' = Generated
            /\ UNCHANGED error_message
       ELSE /\ error_message' = "Database error during post save"
            /\ UNCHANGED generated_posts
    /\ UNCHANGED <<post_in, linkedin_post, x_post, post_calls, x_steps, notPost>>

\* StatelessSavePostsNode.execute_with_external_state, and the end of
\* execute: the step is marked as completed, nothing is written
StatelessSavePosts ==
    /\ ppc = "save_posts"
    /\ post_in.workflow = "StatelessPostWorkflow"
    /\ ppc' = "finished"
    /\ UNCHANGED <<post_in, linkedin_post, x_post, post_calls, error_message, x_steps,
                   generated_posts, notPost>>

PostNext ==
    \/ PostExecute
    \/ StatelessExecute
    \/ \E draft \in LinkedInDrafts \cup {0} : LinkedInPost(draft)
    \/ \E draft \in XDrafts, short \in {0, 20}, failed \in BOOLEAN : XPost(draft, short, failed)
    \/ StatelessLinkedInPost
    \/ StatelessXPost
    \/ \E saved \in BOOLEAN : SavePosts(saved)
    \/ StatelessSavePosts

PostSpec == PostInit /\ [][PostNext]_vars

(***************************************************************************)
(* SaveResultsNode._save_articles_to_cache, run by two requests at once,   *)
(* each in a database session of its own.  news_cache holds the committed  *)
(* rows; a session sees them and what it flushed itself.                   *)
(***************************************************************************)

\* NewsCache.source is a String(100): the width the database accepts
source_max_length == 100

\* Summarized articles by content hash and length of the source name
CachedArticles == {[content_hash |-> "h1", source |-> 20],
                   [content_hash |-> "h2", source |-> 20],
                   [content_hash |-> "h2", source |-> 120]}

\* The INSERT of the row fails (value too long for the column)
Rejected(row) == row.source > source_max_length

Hashes(rows) == {rows[i].content_hash : i \in DOMAIN rows}

\* The session after the flush a query or a commit starts with: a row the
\* database rejects rolls the transaction back and leaves it unusable
\* until rollback() is called
FlushedSession(session) ==
    IF session.inactive \/ \E i \in DOMAIN session.new : Rejected(session.new[i])
    THEN [new |-> <<>>, flushed |-> <<>>, inactive |-> TRUE]
    ELSE [new |-> <<>>, flushed |-> session.flushed \o session.new, inactive |-> FALSE]

\* _check_existing_cache on the session as the query leaves it: a query that
\* raises counts as "not cached"
_check_existing_cache(session, committed, content_hash) ==
    /\ content_hash # ""
    /\ ~session.inactive
    /\ content_hash \in Hashes(committed) \cup Hashes(session.flushed)

CacheInit ==
    /\ QuotaInit
    /\ SumOff
    /\ FetchOff
    /\ RankOff
    /\ PostOff
    /\ HashOff
    /\ StateOff
    /\ StoreOff
    /\ DupOff
    /\ cpc = [s \in Savers |-> "start"]
    /\ cache_in \in [Savers -> SeqsUpTo(CachedArticles, MaxArticles)]
    /\ cache_idx = [s \in Savers |-> 1]
    /\ db_session = [s \in Savers |-> NoSession]
    /\ news_cache = <<>>
    /\ cache_logged = [s \in Savers |-> {}]
    /\ cache_result = [s \in Savers |-> ""]

\* SaveResultsNode.__call__: without articles nothing is saved
SaveBegin(s) ==
    /\ cpc[s] = "start"
    /\ IF cache_in[s] = <<>>
       THEN /\ cpc' = [cpc EXCEPT ![s] = "finished"]
            /\ cache_result' = [cache_result EXCEPT ![s] = "ok"]
       ELSE /\ cpc' = [cpc EXCEPT ![s] = "article"]
            /\ UNCHANGED cache_result
    /\ UNCHANGED <<cache_in, cache_idx, db_session, news_cache, cache_logged, notCache>>

\* One round of the loop over the articles: the query for the content hash,
\* and db_session.add of a new row; raised stands for an exception inside
\* the try block, which is logged
CacheArticle(s, raised) ==
    /\ cpc[s] = "article"
    /\ LET article == cache_in[s][cache_idx[s]]
           queried == IF article.content_hash = "" THEN db_session[s]
                      ELSE IF autoflush THEN FlushedSession(db_session[s])
                      ELSE db_session[s]
           existing == _check_existing_cache(queried, news_cache, article.content_hash)
       IN IF existing
          THEN /\ db_session' = [db_session EXCEPT ![s] = queried]
               /\ UNCHANGED cache_logged
          ELSE IF raised
          THEN /\ db_session' = [db_session EXCEPT ![s] = queried]
               /\ cache_logged' = [cache_logged EXCEPT ![s] = @ \cup {cache_idx[s]}]
          ELSE /\ db_session' = [db_session EXCEPT
                                    ![s] = [queried EXCEPT !.new = Append(@, article)]]
               /\ UNCHANGED cache_logged
    /\ cache_idx' = [cache_idx EXCEPT ![s] = @ + 1]
    /\ cpc' = [cpc EXCEPT ![s] = IF cache_idx[s] = Len(cache_in[s]) THEN "commit" ELSE "article"]
    /\ UNCHANGED <<cache_in, news_cache, cache_result, notCache>>

\* db_session.commit(): the flush, then the rows become visible to all; an
\* exception leaves the with block and becomes DatabaseError("article_caching")
CacheCommit(s) ==
    /\ cpc[s] = "commit"
    /\ LET flushed == FlushedSession(db_session[s])
       IN IF flushed.inactive
          THEN /\ cache_result' = [cache_result EXCEPT ![s] = "DatabaseError"]
               /\ UNCHANGED news_cache
          ELSE /\ cache_result' = [cache_result EXCEPT ![s] = "ok"]
               /\ news_cache' = news_cache \o flushed.flushed
    /\ db_session' = [db_session EXCEPT ![s] = NoSession]
    /\ cpc' = [cpc EXCEPT ![s] = "finished"]
    /\ UNCHANGED <<cache_in, cache_idx, cache_logged, notCache>>

CacheNext ==
    \/ \E s \in Savers : SaveBegin(s)
    \/ \E s \in Savers, raised \in BOOLEAN : CacheArticle(s, raised)
    \/ \E s \in Savers : CacheCommit(s)

CacheSpec == CacheInit /\ [][CacheNext]_vars

(***************************************************************************)
(* CheckQuotaNode._generate_request_hash on a topic and on a variant of    *)
(* it that differs in letter case and in whitespace only.                  *)
(***************************************************************************)

\* The other case of a letter
SwapCase(c) ==
    CASE c = "a" -> "A"
      [] c = "A" -> "a"
      [] c = "i" -> "I"
      [] c = "I" -> "i"
      [] OTHER -> c

\* Topics that pass validation: 2 to MaxTopicLen letters
HashTopics == {t \in SeqsUpTo({"a", "I"}, MaxTopicLen) : Len(t) >= 2}

\* Whitespace put before or behind a topic
Pads == {<<>>, <<" ">>, <<"\t", " ">>}

\* The topic with the letters at the positions in swapped of the other case
Recased(topic, swapped) ==
    [i \in DOMAIN topic |-> IF i \in swapped THEN SwapCase(topic[i]) ELSE topic[i]]

\* The topic with a space put behind its first k letters (k = 0: none)
Spaced(topic, k) ==
    IF k = 0 THEN topic
    ELSE SubSeq(topic, 1, k) \o <<" ">> \o SubSeq(topic, k + 1, Len(topic))

HashInit ==
    /\ QuotaInit
    /\ SumOff
    /\ FetchOff
    /\ RankOff
    /\ PostOff
    /\ CacheOff
    /\ StateOff
    /\ StoreOff
    /\ DupOff
    /\ hpc = "start"
    /\ \E topic \in HashTopics, lead \in Pads, trail \in Pads,
          date \in {StartDay, StartDay + 1}, session_id \in SessionIds :
         \E swapped \in SUBSET DOMAIN topic, k \in 0..(Len(topic) - 1) :
             hash_in = [topic |-> topic,
                        variant |-> lead \o Spaced(Recased(topic, swapped), k) \o trail,
                        spaced |-> k > 0,
                        date |-> date, session_id |-> session_id]
    /\ request_hashes = <<>>

\* The hash of the request is computed
HashRequest ==
    /\ hpc = "start"
    /\ request_hashes' = <<_generate_request_hash(hash_in.topic, hash_in.date,
                                                  hash_in.session_id)>>
    /\ hpc' = "again"
    /\ UNCHANGED <<hash_in, notHash>>

\* The hash is computed once more, and for the variant of the topic
HashAgain ==
    /\ hpc = "again"
    /\ request_hashes' = request_hashes \o
            <<_generate_request_hash(hash_in.topic, hash_in.date, hash_in.session_id),
              _generate_request_hash(hash_in.variant, hash_in.date, hash_in.session_id)>>
    /\ hpc' = "finished"
    /\ UNCHANGED <<hash_in, notHash>>

HashNext == HashRequest \/ HashAgain

HashSpec == HashInit /\ [][HashNext]_vars


(***************************************************************************)
(* PostState: the request's fields in the channels of the compiled graph.  *)
(* Every value written to a field, the input of ainvoke included, passes   *)
(* the field's reducer together with what the channel holds.               *)
(***************************************************************************)

\* keep_first_value
keep_first_value(left, right) == left

\* keep_first_articles
keep_first_articles(left, right) == left

\* PostState: the reducer each of the request's fields is annotated with
Reduced(field, left, right) ==
    IF field = "articles" THEN keep_first_articles(left, right)
    ELSE keep_first_value(left, right)

\* The channels after an update, which holds some of the fields
Written(held, update) ==
    [field \in RequestFields |->
        IF field \in DOMAIN update THEN Reduced(field, held[field], update[field])
        ELSE held[field]]

\* create_initial_post_state for the calls of execute
GraphInputs ==
    [session_id : {"s1", "s2"}, workflow_id : {"w1", "w2"},
     llm_model : {"claude-3-5-sonnet", "gpt-4-turbo"}, topic : {"AI", "Go"},
     articles : {<<"a1">>, <<"a1", "a2">>}]

\* What a node returns for the request's fields: nothing (a partial update),
\* the fields as it received them (state.copy()), or other values
NodeUpdates(held) ==
    {<<>>, held,
     [field \in RequestFields |-> IF field = "articles" THEN <<"a3">> ELSE "other"],
     [field \in {"session_id", "topic"} |-> ""]}

\* The nodes in the order of the edges
NextNode(node) ==
    CASE node = "generate_linkedin_post" -> "generate_x_post"
      [] node = "generate_x_post" -> "save_posts"
      [] node = "save_posts" -> "finished"

StateInit ==
    /\ QuotaInit
    /\ SumOff
    /\ FetchOff
    /\ RankOff
    /\ PostOff
    /\ CacheOff
    /\ HashOff
    /\ StoreOff
    /\ DupOff
    /\ gpc = "start"
    /\ graph_in \in GraphInputs
    /\ channels = [field \in RequestFields |-> ChannelDefault(field)]

\* self.workflow.ainvoke(initial_state): the input is written to the channels
WriteInput ==
    /\ gpc = "start"
    /\ channels' = Written(channels, graph_in)
    /\ gpc' = "generate_linkedin_post"
    /\ UNCHANGED <<graph_in, notState>>

\* A node has run and what it returned is written to the channels
WriteUpdate(update) ==
    /\ gpc \in {"generate_linkedin_post", "generate_x_post", "save_posts"}
    /\ channels' = Written(channels, update)
    /\ gpc' = NextNode(gpc)
    /\ UNCHANGED <<graph_in, notState>>

StateNext ==
    \/ WriteInput
    \/ \E update \in NodeUpdates(channels) : WriteUpdate(update)

StateSpec == StateInit /\ [][StateNext]_vars


(***************************************************************************)
(* ExternalStateManager, the singleton all stateless workflows share, with *)
(* two runs of StatelessPostWorkflow.execute and one direct caller of the  *)
(* manager.  A coroutine runs without interruption between two points at   *)
(* which it is suspended: the calls of the manager are atomic, and the     *)
(* graph suspends a run between its nodes.  The timestamps the manager     *)
(* keeps beside _version are not modelled: nothing reads them.             *)
(***************************************************************************)

\* dict.update, {**a, **b}
Merge(dict, updates) ==
    [field \in DOMAIN dict \cup DOMAIN updates |->
        IF field \in DOMAIN updates THEN updates[field] ELSE dict[field]]

\* str(uuid.uuid4()): a key never handed out before
StateKeys == {1, 2, 3}

FreshKeys_any(used) == StateKeys

FreshKeys(used) == StateKeys \ used

\* ExternalStateManager.create_state: the states afterwards
create_state(states, state_key, initial_data) ==
    [key \in DOMAIN states \cup {state_key} |->
        IF key = state_key THEN Merge(initial_data, [_version |-> 1]) ELSE states[key]]

\* ExternalStateManager.get_state
get_state(states, state_key) ==
    IF state_key \notin DOMAIN states THEN None ELSE states[state_key]

update_state_replacing(states, state_key, updates) ==
    IF state_key \notin DOMAIN states THEN states
    ELSE [states EXCEPT ![state_key] = Merge(updates, [_version |-> @._version + 1])]

\* ExternalStateManager.update_state: the states afterwards; the call
\* returns whether the key was held
update_state(states, state_key, updates) ==
    IF state_key \notin DOMAIN states THEN states
    ELSE LET updated == Merge(states[state_key], updates)
         IN [states EXCEPT ![state_key] = Merge(updated, [_version |-> updated._version + 1])]

\* ExternalStateManager.delete_state: the states afterwards
delete_state(states, state_key) ==
    [key \in DOMAIN states \ {state_key} |-> states[key]]

\* The articles of a call: with a title, or a dict without one
Titled(title) == [title |-> title, summary |-> "summary"]
Untitled == [url |-> "https://example.com/a"]
RunArticles == {<<>>, <<Titled("t1")>>, <<Untitled>>}

\* The calls of execute; each caller has its own session
RunInputs(r) ==
    [session_id : {IF r = 1 THEN "s1" ELSE "s2"}, topic : {"AI", "Go"},
     articles : RunArticles, llm_model : {"claude-3-5-sonnet"}]

\* external_state_data of execute; the workflow id is a uuid of the run
external_state_data(r, input) ==
    [session_id |-> input.session_id, workflow_id |-> r, llm_model |-> input.llm_model,
     topic |-> input.topic, articles |-> input.articles,
     current_step |-> "initialization", processing_steps |-> <<>>]

\* articles[:3]
FirstThree(articles) == SubSeq(articles, 1, IF Len(articles) < 3 THEN Len(articles) ELSE 3)

\* article['title'] raises KeyError for one of the articles
TitleMissing(articles) == \E i \in 1..Len(articles) : "title" \notin DOMAIN articles[i]

\* StatelessLinkedInPostNode: the text is made of the topic and the titles
\* of the first three articles
stateless_linkedin_post(external_state) ==
    [content |-> <<"linkedin", external_state.topic,
                   [i \in 1..Len(FirstThree(external_state.articles)) |->
                       external_state.articles[i].title]>>]

\* StatelessXPostNode: the text is made of the topic and the first article
stateless_x_post(external_state) ==
    [content |-> <<"x", external_state.topic,
                   IF external_state.articles # <<>>
                   THEN <<external_state.articles[1].title>> ELSE <<>>>>]

\* StatelessPostWorkflow._create_workflow: the edges, which no condition guards
StatelessAfter(node) ==
    CASE node = "generate_linkedin_post" -> "generate_x_post"
      [] node = "generate_x_post" -> "save_posts"
      [] node = "save_posts" -> "end"

\* The name a node gives itself
NodeName(node) ==
    CASE node = "generate_linkedin_post" -> "stateless_linkedin_post"
      [] node = "generate_x_post" -> "stateless_x_post"
      [] node = "save_posts" -> "stateless_save_posts"

\* The step a node appends to processing_steps
StepName(node) ==
    CASE node = "generate_linkedin_post" -> "stateless_linkedin_generation"
      [] node = "generate_x_post" -> "stateless_x_generation"
      [] node = "save_posts" -> "stateless_save_posts"

\* execute_with_external_state raises: the state is gone, or an article has
\* no title where the node reads it
NodeRaises(node, external_state) ==
    \/ external_state = None
    \/ /\ node = "generate_linkedin_post"
       /\ TitleMissing(FirstThree(external_state.articles))
    \/ /\ node = "generate_x_post"
       /\ external_state.articles # <<>>
       /\ "title" \notin DOMAIN external_state.articles[1]

\* The updates a node saves to the external state
NodeUpdates_stateless(node, external_state) ==
    LET steps == [current_step |-> StepName(node),
                  processing_steps |-> Append(external_state.processing_steps, StepName(node))]
    IN CASE node = "generate_linkedin_post" ->
                Merge(steps, [linkedin_post |-> stateless_linkedin_post(external_state)])
         [] node = "generate_x_post" ->
                Merge(steps, [x_post |-> stateless_x_post(external_state)])
         [] node = "save_posts" -> steps

\* _format_results
_format_results(final_state) ==
    [workflow_id |-> final_state.workflow_id, llm_model_used |-> final_state.llm_model,
     posts |-> [kind \in {k \in {"linkedin_post", "x_post"} : k \in DOMAIN final_state} |->
                   final_state[kind].content]]

StoreInit ==
    /\ QuotaInit
    /\ SumOff
    /\ FetchOff
    /\ RankOff
    /\ PostOff
    /\ CacheOff
    /\ HashOff
    /\ StateOff
    /\ DupOff
    /\ _states = <<>>
    /\ used_keys = {}
    /\ run_pc = [r \in Runners |-> "start"]
    /\ run_in \in [Runners -> UNION {RunInputs(r) : r \in Runners}]
    /\ \A r \in Runners : run_in[r] \in RunInputs(r)
    /\ run_key = [r \in Runners |-> 0]
    /\ minimal_state = [r \in Runners |-> NoMinimalState]
    /\ run_result = [r \in Runners |-> None]
    /\ client = NoClient

\* StatelessPostWorkflow.execute up to ainvoke: the external state is
\* created and the minimal state holds its key
RunExecute(r, state_key) ==
    /\ run_pc[r] = "start"
    /\ state_key \in FreshKeys(used_keys)
    /\ _states' = create_state(_states, state_key, external_state_data(r, run_in[r]))
    /\ used_keys' = used_keys \cup {state_key}
    /\ run_key' = [run_key EXCEPT ![r] = state_key]
    /\ minimal_state' = [minimal_state EXCEPT ![r].state_key = state_key]
    /\ run_pc' = [run_pc EXCEPT ![r] = "generate_linkedin_post"]
    /\ UNCHANGED <<run_in, run_result, client, notStore>>

\* StatelessNodeBase.__call__ of the node the run is at: the external state
\* is loaded, the node's output is saved to it; an exception becomes the
\* error_message of the minimal state
RunNode(r) ==
    /\ run_pc[r] \in {"generate_linkedin_post", "generate_x_post", "save_posts"}
    /\ LET node == run_pc[r]
           state_key == minimal_state[r].state_key
           external_state == get_state(_states, state_key)
           failed == NodeRaises(node, external_state)
       IN /\ IF failed
             THEN /\ minimal_state' = [minimal_state EXCEPT
                         ![r].error_message = "Error in " \o NodeName(node),
                         ![r].failed_step = NodeName(node)]
                  /\ UNCHANGED _states
             ELSE /\ _states' = update_state(_states, state_key,
                                             NodeUpdates_stateless(node, external_state))
                  /\ UNCHANGED minimal_state
          /\ run_pc' = [run_pc EXCEPT ![r] = StatelessAfter(node)]
    /\ UNCHANGED <<used_keys, run_in, run_key, run_result, client, notStore>>

\* StatelessPostWorkflow.execute after ainvoke: the final state is read; a
\* missing state or an error_message raises NewsProcessingError, otherwise
\* the external state is deleted and the formatted results are returned
RunReturn(r) ==
    /\ run_pc[r] = "end"
    /\ LET final_external_state == get_state(_states, run_key[r])
       IN IF final_external_state = None \/ minimal_state[r].error_message # ""
          THEN /\ run_pc' = [run_pc EXCEPT ![r] = "raised"]
               /\ UNCHANGED <<_states, run_result>>
          ELSE /\ _states' = delete_state(_states, run_key[r])
               /\ run_result' = [run_result EXCEPT ![r] = _format_results(final_external_state)]
               /\ run_pc' = [run_pc EXCEPT ![r] = "returned"]
    /\ UNCHANGED <<used_keys, run_in, run_key, minimal_state, client, notStore>>

\* The data and the updates of the direct caller
ClientData == {[session_id |-> "s3", test_field |-> "test_value"],
               [session_id |-> "s3"]}
ClientUpdates == {[new_field |-> "new_value", test_field |-> "updated_value"],
                  [test_field |-> "other_value"]}

\* state_manager.create_state(test_data)
ClientCreate(initial_data, state_key) ==
    /\ client.key = 0
    /\ client.calls < MaxCalls
    /\ state_key \in FreshKeys(used_keys)
    /\ _states' = create_state(_states, state_key, initial_data)
    /\ used_keys' = used_keys \cup {state_key}
    /\ client' = [key |-> state_key, calls |-> client.calls + 1, last |-> "create_state",
                  arg |-> initial_data, before |-> None, ret |-> None]
    /\ UNCHANGED <<run_pc, run_in, run_key, minimal_state, run_result, notStore>>

\* state_manager.get_state(state_key)
ClientGet ==
    /\ client.key # 0
    /\ client.calls < MaxCalls
    /\ client' = [client EXCEPT !.calls = @ + 1, !.last = "get_state", !.arg = None,
                                !.before = get_state(_states, client.key),
                                !.ret = get_state(_states, client.key)]
    /\ UNCHANGED <<_states, used_keys, run_pc, run_in, run_key, minimal_state, run_result,
                   notStore>>

\* state_manager.update_state(state_key, updates)
ClientUpdate(updates) ==
    /\ client.key # 0
    /\ client.calls < MaxCalls
    /\ _states' = update_state(_states, client.key, updates)
    /\ client' = [client EXCEPT !.calls = @ + 1, !.last = "update_state", !.arg = updates,
                                !.before = get_state(_states, client.key),
                                !.ret = [ok |-> client.key \in DOMAIN _states]]
    /\ UNCHANGED <<used_keys, run_pc, run_in, run_key, minimal_state, run_result, notStore>>

\* state_manager.delete_state(state_key)
ClientDelete ==
    /\ client.key # 0
    /\ client.calls < MaxCalls
    /\ _states' = delete_state(_states, client.key)
    /\ client' = [client EXCEPT !.calls = @ + 1, !.last = "delete_state", !.arg = None,
                                !.before = get_state(_states, client.key),
                                !.ret = [ok |-> client.key \in DOMAIN _states]]
    /\ UNCHANGED <<used_keys, run_pc, run_in, run_key, minimal_state, run_result, notStore>>

StoreNext ==
    \/ \E r \in Runners, state_key \in StateKeys : RunExecute(r, state_key)
    \/ \E r \in Runners : RunNode(r)
    \/ \E r \in Runners : RunReturn(r)
    \/ \E initial_data \in ClientData, state_key \in StateKeys :
           ClientCreate(initial_data, state_key)
    \/ ClientGet
    \/ \E updates \in ClientUpdates : ClientUpdate(updates)
    \/ ClientDelete

StoreSpec == StoreInit /\ [][StoreNext]_vars


(***************************************************************************)
(* _check_duplicate_request of two worker processes for identical requests *)
(* of one session, with the clock running while they work.  The node takes *)
(* one_hour_ago from the clock first; the select that follows flushes the  *)
(* pending UPDATE of the session row and so waits for the row's lock.      *)
(***************************************************************************)
\* The step of the clock
HalfHour == OneHour \div 2

\* The fingerprint of the requests
DupHash == _generate_request_hash(TopicAI, [iso |-> TRUE, day |-> 0], "s1")

DupRow(id, created_at) ==
    [id |-> id, session_id |-> "s1", request_hash |-> DupHash, created_at |-> created_at]

\* One earlier request of the session was recorded at time 0
DupInit ==
    /\ QuotaInit
    /\ SumOff
    /\ FetchOff
    /\ RankOff
    /\ PostOff
    /\ CacheOff
    /\ HashOff
    /\ StateOff
    /\ StoreOff
    /\ dup_now = 0
    /\ dup_ledger = {DupRow(1, 0)}
    /\ dup_lock = Nobody
    /\ gate = [p \in Gates |-> NoGate]

\* The clock advances
DupTick ==
    /\ dup_now < MaxHalfHours * HalfHour
    /\ dup_now' = dup_now + HalfHour
    /\ UNCHANGED <<dup_ledger, dup_lock, gate, notDup>>

\* _ensure_session_exists assigns last_active; _check_duplicate_request
\* computes one_hour_ago = utcnow() - timedelta(hours=1)
ComputeWindow(p) ==
    /\ gate[p].pc = "idle"
    /\ gate' = [gate EXCEPT ![p].pc = "select", ![p].computed_at = dup_now]
    /\ UNCHANGED <<dup_now, dup_ledger, dup_lock, notDup>>

\* db_session.execute(select(UserRequest)...) and scalar_one_or_none(): the
\* flush takes the lock of the session row; one row raises
\* DuplicateRequestError, several raise MultipleResultsFound, which the node
\* wraps into DatabaseError("duplicate_check")
SelectDuplicate(p) ==
    /\ gate[p].pc = "select"
    /\ dup_lock = Nobody
    /\ LET n == Cardinality(DuplicateRows(dup_ledger, "s1", DupHash, gate[p].computed_at))
       IN IF n = 0
          THEN /\ gate' = [gate EXCEPT ![p].pc = "record"]
               /\ dup_lock' = p
          ELSE /\ gate' = [gate EXCEPT ![p].pc = "done", ![p].duplicates = n,
                                       ![p].result = IF n = 1 THEN "DuplicateRequest"
                                                     ELSE "DatabaseError"]
               /\ UNCHANGED dup_lock
    /\ UNCHANGED <<dup_now, dup_ledger, notDup>>

\* The quota is available: _record_request and commit
RecordAndCommit(p) ==
    /\ gate[p].pc = "record"
    /\ dup_ledger' = dup_ledger \cup {DupRow(Cardinality(dup_ledger) + 1, dup_now)}
    /\ dup_lock' = Nobody
    /\ gate' = [gate EXCEPT ![p].pc = "done", ![p].result = "ok"]
    /\ UNCHANGED <<dup_now, notDup>>

\* The process takes the next request
NextRequest(p) ==
    /\ gate[p].pc = "done"
    /\ gate' = [gate EXCEPT ![p] = NoGate]
    /\ UNCHANGED <<dup_now, dup_ledger, dup_lock, notDup>>

DupNext ==
    \/ DupTick
    \/ \E p \in Gates : ComputeWindow(p)
    \/ \E p \in Gates : SelectDuplicate(p)
    \/ \E p \in Gates : RecordAndCommit(p)
    \/ \E p \in Gates : NextRequest(p)

DupSpec == DupInit /\ [][DupNext]_vars

(***************************************************************************)
(* Properties of the quota gate and of the workflow around it.             *)
(***************************************************************************)
\* The ledger entries of a session on a day
EntriesOn(session_id, day) ==
    {r \in ledger : r.session_id = session_id /\ DayOf(r.created_at) = day}

DaysSeen == {DayOf(r.created_at) : r \in ledger}

\* The request of worker w passed validation and the gate answered it
Answered(w) == pc[w] = "done" /\ outcome[w] \notin {"ValidationError", "DatabaseError"}

Recorded(w) == local[w].new_request_id # 0

\* Entries of other requests with the fingerprint of w's request, recorded
\* for its session within the last hour
TwinRows(w) ==
    LET fingerprint == RequestHash(w) IN
    {r \in ledger : /\ now - r.created_at <= OneHour
                    /\ r.id # local[w].new_request_id
                    /\ r.session_id = Sid(w)
                    /\ r.request_hash = fingerprint}

AtDailyLimit(w) == Cardinality(EntriesOn(Sid(w), DayOf(now))) >= DAILY_QUOTA_LIMIT

AtMonthlyLimit(w) ==
    Cardinality({r \in ledger : /\ r.session_id = Sid(w)
                                /\ DayOf(r.created_at) >= MonthStart(DayOf(now))})
        >= MONTHLY_QUOTA_LIMIT

\* C1 as stated: a session has at most daily-limit entries on a day, and a
\* request that is not recorded because the day already has daily-limit
\* entries is rejected with QuotaExceeded.
C1_LimitPlusOneIsQuotaExceeded ==
    /\ \A s \in SessionIds, d \in DaysSeen :
          Cardinality(EntriesOn(s, d)) <= DAILY_QUOTA_LIMIT
    /\ \A w \in Workers :
          (Answered(w) /\ ~Recorded(w) /\ AtDailyLimit(w))
              => outcome[w] = "QuotaExceeded"

\* C1 amended: a session has at most daily-limit entries on a day; a request
\* is rejected with QuotaExceeded only when the day or the month is at its
\* limit; and a request that is not recorded because the day has daily-limit
\* entries is rejected with QuotaExceeded, or with DuplicateRequest when it
\* repeats a fingerprint recorded within the last hour.
C1_DailyLimitAdmitted ==
    /\ \A s \in SessionIds, d \in DaysSeen :
          Cardinality(EntriesOn(s, d)) <= DAILY_QUOTA_LIMIT
    /\ \A w \in Workers :
          /\ outcome[w] = "QuotaExceeded" => (AtDailyLimit(w) \/ AtMonthlyLimit(w))
          /\ (Answered(w) /\ ~Recorded(w) /\ AtDailyLimit(w))
                => \/ outcome[w] = "QuotaExceeded"
                   \/ outcome[w] = "DuplicateRequest" /\ TwinRows(w) # {}
          /\ (Answered(w) /\ ~Recorded(w))
                => (AtDailyLimit(w) \/ AtMonthlyLimit(w) \/ TwinRows(w) # {})

\* C1 witness: the tenth request of the day was admitted in this run and a
\* later one is rejected with QuotaExceeded.
C1_Witness ==
    \E w \in Workers :
        /\ pc[w] = "done" /\ outcome[w] = "QuotaExceeded"
        /\ Sid(w) = "s1"
        /\ DayOf(now) = StartDay
        /\ Cardinality(EntriesOn("s1", StartDay)) = DAILY_QUOTA_LIMIT

\* C2: whatever the interleaving of the gates of one session, the entries of
\* the session on one day, committed or flushed by a transaction in flight,
\* never number more than the daily limit.
C2_ConcurrentGatesKeepDailyLimit ==
    LET all == ledger \cup UNION {txn[w].rows : w \in Workers} IN
    \A s \in SessionIds, d \in {DayOf(r.created_at) : r \in all} :
        Cardinality({r \in all : r.session_id = s /\ DayOf(r.created_at) = d})
            <= DAILY_QUOTA_LIMIT

\* C2 witness: one gate has flushed the entry that reaches the daily limit
\* and has not committed, while another gate of the same session is waiting
\* to make its first read.
C2_Witness ==
    \E w, v \in Workers :
        /\ w # v /\ Sid(w) = Sid(v)
        /\ pc[w] = "commit" /\ txn[w].rows # {}
        /\ pc[v] = "check_duplicate"
        /\ DailyUsed(Visible(w), Sid(w), DayOf(now)) = DAILY_QUOTA_LIMIT

\* C3: of two requests of one session in flight together with the same
\* fingerprint, at most one records a ledger entry.
C3_ConcurrentTwinsRecordOnce ==
    \A w, v \in Workers :
        (/\ w # v
         /\ pc[w] # "idle" /\ pc[v] # "idle"
         /\ outcome[w] # "ValidationError" /\ outcome[v] # "ValidationError"
         /\ RequestHash(w) = RequestHash(v))
            => ~(Recorded(w) /\ Recorded(v))

\* C3 witness: two requests with one fingerprint are in flight, one has
\* committed its entry and the other was rejected as a duplicate.
C3_Witness ==
    \E w, v \in Workers :
        /\ w # v
        /\ RequestHash(w) = RequestHash(v)
        /\ req[w].topic # req[v].topic
        /\ local[w].committed
        /\ outcome[v] = "DuplicateRequest"

\* C4: a request whose fingerprint was recorded for its session at most 60
\* minutes ago is rejected as DuplicateRequest; a request is rejected as
\* DuplicateRequest only then; and a request whose fingerprint was last
\* recorded 61 minutes ago or earlier is recorded unless the day or the month
\* is at its limit.
C4_DuplicateWindow ==
    \A w \in Workers :
        /\ (Answered(w) /\ TwinRows(w) # {}) => outcome[w] = "DuplicateRequest"
        /\ outcome[w] = "DuplicateRequest" => TwinRows(w) # {}
        /\ (Answered(w) /\ TwinRows(w) = {} /\ ~Recorded(w))
              => (AtDailyLimit(w) \/ AtMonthlyLimit(w))

\* C4 witness: a request is admitted 61 minutes after the entry with its
\* fingerprint was recorded, both entries being in the ledger.
C4_Witness ==
    \E w \in Workers :
        /\ pc[w] = "done" /\ local[w].committed
        /\ \E r \in ledger : /\ r.session_id = Sid(w)
                             /\ r.request_hash = RequestHash(w)
                             /\ now - r.created_at = OneHour + 1

\* C5: a request rejected with QuotaExceeded or DuplicateRequest, a repeated
\* one included, has recorded nothing: no entry of it is committed or left
\* pending, so the counts of the session are those of before.
C5_RejectedRecordsNothing ==
    \A w \in Workers :
        outcome[w] \in {"QuotaExceeded", "DuplicateRequest"}
            => /\ ~local[w].committed
               /\ ~Recorded(w)
               /\ txn[w] = NoTxn

\* C5 witness: a request was admitted, the same request was rejected when
\* sent again and is rejected once more, the ledger holding the one entry
\* more.
C5_Witness ==
    /\ \A w \in Workers : pc[w] = "done" /\ outcome[w] = "DuplicateRequest"
    /\ req[1] = req[2]
    /\ Cardinality(ledger) = PriorToday + 1

\* C6: a request whose fingerprint was recorded for its session within the
\* last hour is rejected as DuplicateRequest also when the day is at its
\* limit, and it records nothing.
C6_DuplicateBeforeQuota ==
    \A w \in Workers :
        (Answered(w) /\ TwinRows(w) # {} /\ AtDailyLimit(w))
            => /\ outcome[w] = "DuplicateRequest"
               /\ ~Recorded(w)
               /\ txn[w] = NoTxn

\* C6 witness: a duplicate is rejected while the day has daily-limit entries.
C6_Witness ==
    \E w \in Workers :
        /\ pc[w] = "done" /\ outcome[w] = "DuplicateRequest"
        /\ Cardinality(EntriesOn(Sid(w), DayOf(now))) = DAILY_QUOTA_LIMIT

\* C7 as stated: when the session has ten entries today, the next request is
\* rejected with QuotaExceeded and the quota endpoint reports remaining 0 and
\* not available.
C7_NextRequestIsQuotaExceeded ==
    \A w \in Workers :
        (Answered(w) /\ ~Recorded(w)
         /\ get_session_quota(Sid(w)).dailyUsed = DAILY_QUOTA_LIMIT)
            => /\ outcome[w] = "QuotaExceeded"
               /\ get_session_quota(Sid(w)).remaining = 0
               /\ ~get_session_quota(Sid(w)).quotaAvailable

\* C7 amended: when the session has ten entries today, the next request that
\* does not repeat a fingerprint recorded within the last hour is rejected
\* with QuotaExceeded for the daily window, no request is recorded as an
\* eleventh entry, and the quota endpoint reports remaining 0 and not
\* available.
C7_TenEntriesRejectNext ==
    \A w \in Workers :
        /\ (Answered(w) /\ ~Recorded(w) /\ TwinRows(w) = {}
            /\ Cardinality(EntriesOn(Sid(w), DayOf(now))) = DAILY_QUOTA_LIMIT)
               => /\ outcome[w] = "QuotaExceeded"
                  /\ local[w].quota_type = "daily"
                  /\ get_session_quota(Sid(w)).remaining = 0
                  /\ ~get_session_quota(Sid(w)).quotaAvailable
        /\ local[w].committed
               => Cardinality(EntriesOn(Sid(w), DayOf(now))) <= DAILY_QUOTA_LIMIT

\* C7 witness: ten entries today, and a request with a fresh fingerprint is
\* rejected with QuotaExceeded.
C7_Witness ==
    \E w \in Workers :
        /\ pc[w] = "done" /\ outcome[w] = "QuotaExceeded"
        /\ TwinRows(w) = {}
        /\ get_session_quota(Sid(w)).dailyUsed = DAILY_QUOTA_LIMIT
        /\ get_session_quota(Sid(w)).remaining = 0

\* C8: a request that ended with a validation error, QuotaExceeded or
\* DuplicateRequest stopped there: no search call and no language-model call
\* was made for it.
C8_RejectedBeforeExternalCalls ==
    \A w \in Workers :
        outcome[w] \in {"ValidationError", "QuotaExceeded", "DuplicateRequest"}
            => /\ pc[w] = "done"
               /\ ~called[w].search
               /\ ~called[w].llm

\* C8 witness: one request failed validation and another was rejected by the
\* gate; both have ended.
C8_Witness ==
    \E w, v \in Workers :
        /\ outcome[w] = "ValidationError"
        /\ outcome[v] \in {"QuotaExceeded", "DuplicateRequest"}
        /\ pc[w] = "done" /\ pc[v] = "done"

(***************************************************************************)
(* Properties of the summarizer's provider fallback.                       *)
(***************************************************************************)
\* C9: when the first provider of the order fails on the whole batch (its
\* client cannot be initialized) and the second provider succeeds, the
\* providers tried are exactly the first and the second, in this order, and
\* the provider recorded at the end is the second.
C9_FallbackToSecondProvider ==
    (/\ spc = "finished" /\ sum_result = "ok"
     /\ sum_in.articles # <<>>
     /\ Order[1] \notin sum_in.keys
     /\ Order[2] \in sum_in.keys)
        => /\ providers_tried = <<Order[1], Order[2]>>
           /\ current_llm_provider = Order[2]
           /\ Len(summarized) = Len(sum_in.articles)

\* C9 witness: the preferred provider has no key, the next one has, and the
\* run ended with a summary written by the model.
C9_Witness ==
    /\ spc = "finished" /\ sum_result = "ok"
    /\ Order[1] \notin sum_in.keys
    /\ Order[2] \in sum_in.keys
    /\ Len(providers_tried) = 2
    /\ \E i \in DOMAIN summarized : summarized[i].by = "llm"

\* C10: a provider that summarizes no article of the batch has failed the
\* batch and the next provider is tried, so a run that ends well holds at
\* least one summary written by its final provider.
C10_ProviderWithoutSummariesFails ==
    (spc = "finished" /\ sum_result = "ok" /\ sum_in.articles # <<>>)
        => \E i \in DOMAIN summarized : summarized[i].by = "llm"

\* The order's providers up to and including the first whose client can be
\* initialized
RECURSIVE UpToFirstWithKey(_, _)
UpToFirstWithKey(order, keys) ==
    IF order = <<>> THEN <<>>
    ELSE IF Head(order) \in keys THEN <<Head(order)>>
    ELSE <<Head(order)>> \o UpToFirstWithKey(Tail(order), keys)

\* C11: while a provider works through the batch, an article whose summary
\* fails is kept, in its place, with its snippet cut to 200 characters; the
\* provider is not changed and the batch ends well with one entry per article.
C11_ArticleFailureFallsBack ==
    (spc = "summarize" \/ (spc = "finished" /\ sum_result = "ok" /\ sum_in.articles # <<>>))
        => /\ providers_tried = UpToFirstWithKey(Order, sum_in.keys)
           /\ \A i \in DOMAIN summarized :
                 /\ summarized[i].article = i
                 /\ summarized[i].by = "snippet"
                       => summarized[i].len =
                             IF sum_in.articles[i] > 200 THEN 200 ELSE sum_in.articles[i]
           /\ spc = "finished" => Len(summarized) = Len(sum_in.articles)

\* C11 witness: one provider, with one article summarized by the model and
\* another kept with its long snippet cut short.
C11_Witness ==
    /\ spc = "finished" /\ sum_result = "ok"
    /\ Len(providers_tried) = 1
    /\ \E i, j \in DOMAIN summarized :
          /\ summarized[i].by = "llm"
          /\ summarized[j].by = "snippet"
          /\ sum_in.articles[j] > 200
          /\ summarized[j].len = 200

\* C12: when every provider of the order fails, the stage ends with the
\* provider error and the error names every provider that was tried.
C12_AllProvidersFailedNamesAll ==
    (/\ spc = "finished"
     /\ sum_in.articles # <<>>
     /\ \A i \in DOMAIN Order : Order[i] \notin sum_in.keys)
        => /\ sum_result = "LLMProviderError"
           /\ sum_error.raised
           /\ providers_tried = Order
           /\ \A i \in DOMAIN providers_tried : providers_tried[i] \in sum_error.named

(***************************************************************************)
(* Properties of the fetcher.                                              *)
(***************************************************************************)
\* C13: the fetcher calls the API at most 4 times, whatever the failures are;
\* it has waited 1s, 2s and 4s before its second, third and fourth call; only
\* its last call can be a success; and it gives up only after the fourth
\* failure.
C13_FetcherRetries ==
    /\ Len(fetch_outcomes) <= 4
    /\ \A i \in DOMAIN fetch_outcomes : i < Len(fetch_outcomes) => fetch_outcomes[i] # "ok"
    /\ Len(fetch_delays) <= 3
    /\ \A i \in DOMAIN fetch_delays : fetch_delays[i] = <<1, 2, 4>>[i]
    /\ Len(fetch_outcomes) <= Len(fetch_delays) + 1
    /\ fpc = "call" => Len(fetch_delays) = Len(fetch_outcomes)
    /\ fpc = "finished" =>
          \/ /\ fetch_result = "ok"
             /\ fetch_outcomes[Len(fetch_outcomes)] = "ok"
             /\ Len(fetch_delays) = Len(fetch_outcomes) - 1
          \/ /\ fetch_result = "SerperAPIError"
             /\ Len(fetch_outcomes) = 4
             /\ fetch_delays = <<1, 2, 4>>
             /\ \A i \in DOMAIN fetch_outcomes : fetch_outcomes[i] # "ok"

\* C13 witness: a timeout, a bad status and a request error, then a success
\* on the fourth call.
C13_Witness ==
    /\ fpc = "finished"
    /\ fetch_outcomes = <<"timeout", "status", "request_error", "ok">>
    /\ fetch_delays = <<1, 2, 4>>

(***************************************************************************)
(* Properties of the ranker.                                               *)
(***************************************************************************)
\* C14: the ranker returns at most the requested number of articles.
C14_AtMostRequestedCount ==
    rpc = "finished" => Len(filtered_articles) <= rank_in.top_n

\* C14 witness: more articles survive the filters than were asked for, and
\* exactly the requested number is returned.
C14_Witness ==
    /\ rpc = "finished"
    /\ Len(_remove_duplicates(_filter_by_quality(rank_in.raw_articles))) > rank_in.top_n
    /\ Len(filtered_articles) = rank_in.top_n

\* C15: no two returned articles have the same content hash, the hash of the
\* title followed by the URL.
C15_NoDuplicateContentHash ==
    rpc = "finished" =>
        \A i, j \in DOMAIN filtered_articles :
            i # j => filtered_articles[i].content_hash # filtered_articles[j].content_hash

\* C16: of two returned articles the earlier one has the higher score, or the
\* same score and is the trusted one, or the same score and trust and the
\* earlier search position.
C16_OutputOrder ==
    rpc = "finished" =>
        /\ Len(filtered_articles) = Len(final_articles)
        /\ \A i, j \in DOMAIN final_articles :
              i < j =>
                 LET a == final_articles[i]
                     b == final_articles[j]
                     a_trusted == Get(a, "trusted_source", FALSE)
                     b_trusted == Get(b, "trusted_source", FALSE)
                 IN /\ filtered_articles[i].url = a.url
                    /\ filtered_articles[i].relevance_score = a.relevance_score
                    /\ \/ a.relevance_score > b.relevance_score
                       \/ /\ a.relevance_score = b.relevance_score
                          /\ a_trusted /\ ~b_trusted
                       \/ /\ a.relevance_score = b.relevance_score
                          /\ a_trusted = b_trusted
                          /\ a.position <= b.position

\* C16 witness: two articles of the same score are returned, the trusted one
\* first although the search had it later.
C16_Witness ==
    /\ rpc = "finished"
    /\ Len(final_articles) >= 2
    /\ final_articles[1].relevance_score = final_articles[2].relevance_score
    /\ Get(final_articles[1], "trusted_source", FALSE)
    /\ ~Get(final_articles[2], "trusted_source", FALSE)
    /\ final_articles[1].position > final_articles[2].position

\* C17 as stated: without keywords every returned article has the score 0.5.
C17_NoKeywordsAllHalf ==
    (rpc = "finished" /\ topic_config.keywords = <<>>) =>
        \A i \in DOMAIN filtered_articles : filtered_articles[i].relevance_score = 500

\* C17: without keywords every returned article has the score 0.5, unless its
\* host matches a trusted source of the topic: then its score is 0.5 times
\* the priority weight, at most 1.
C17_NoKeywordsHalfOrBoosted ==
    (rpc = "finished" /\ topic_config.keywords = <<>>) =>
        \A i \in DOMAIN filtered_articles :
            filtered_articles[i].relevance_score =
                IF \E k \in DOMAIN topic_config.trustedSources :
                      Contains(StripWww(LowerText(Netloc(filtered_articles[i].url))),
                               LowerPiece(topic_config.trustedSources[k]))
                THEN IF (500 * topic_config.priorityWeight) \div 1000 < 1000
                     THEN (500 * topic_config.priorityWeight) \div 1000 ELSE 1000
                ELSE 500

\* C17 witness: a topic without keywords, one returned article from a trusted
\* source with the score 0.75 and one from another source with 0.5.
C17_Witness ==
    /\ rpc = "finished"
    /\ topic_config.found
    /\ topic_config.keywords = <<>>
    /\ \E i, j \in DOMAIN filtered_articles :
          /\ filtered_articles[i].relevance_score = 750
          /\ filtered_articles[j].relevance_score = 500

(***************************************************************************)
(* Properties of post composition.                                         *)
(***************************************************************************)
\* C18: the post for X is never longer than 250 characters.
C18_ShortFormWithinLimit ==
    x_post.made => x_post.char_count <= 250

\* C19: the post for LinkedIn is never longer than 3000 characters.
C19_LongFormWithinLimit ==
    linkedin_post.made => linkedin_post.char_count <= 3000

\* C20: post composition for an empty article list ends with a generic
\* LinkedIn post that is not empty and names the topic, and no provider has
\* been called.
C20_EmptyListGenericPost ==
    (ppc = "finished" /\ post_in.articles = <<>>) =>
        /\ linkedin_post.made
        /\ linkedin_post.generic
        /\ linkedin_post.topic
        /\ linkedin_post.char_count > 0
        /\ post_calls = <<>>

\* The draft XPostNode worked on has no URL, and the first article has one
NoUrlInDraft ==
    /\ x_post.made
    /\ post_in.workflow = "PostWorkflow"
    /\ x_steps.draft.url = 0
    /\ post_in.articles[1].url > 0

NothingToSpliceInto == NoUrlInDraft /\ x_steps.draft.words = {}

\* C22 as stated: the URL is appended, with "Details: " or bare, only when
\* there is room for it, and is left out otherwise.
C22_AppendedOrOmitted ==
    NothingToSpliceInto =>
        LET len == x_steps.draft.body + x_steps.draft.tags
            url == post_in.articles[1].url
        IN IF len + 10 + url <= 250 THEN x_steps.with_url.url.how = "labelled"
           ELSE IF len + url + 1 <= 250 THEN x_steps.with_url.url.how = "bare"
           ELSE x_steps.with_url.url.how = "none"

\* C22: the URL is appended, with "Details: " or bare, only when there is
\* room for it; failing that the draft is cut to make room for "... " and the
\* URL if the URL leaves more than 50 characters, and only else the URL is
\* left out; a text that got the URL is never longer than 250 characters.
C22_AppendedCutOrOmitted ==
    NothingToSpliceInto =>
        LET len == x_steps.draft.body + x_steps.draft.tags
            url == post_in.articles[1].url
            after == x_steps.with_url
        IN /\ IF len + 10 + url <= 250
              THEN after.url.how = "labelled" /\ after.body + after.tags = len + 10 + url
              ELSE IF len + url + 1 <= 250
              THEN after.url.how = "bare" /\ after.body + after.tags = len + 1 + url
              ELSE IF 250 - url - 4 > 50
              THEN after.url.how = "after_cut" /\ after.body + after.tags = 250
              ELSE after.url.how = "none" /\ after.body + after.tags = len
           /\ after.url.how # "none" => after.body + after.tags <= 250

\* C22 witness: one composer run for each of the four outcomes is told apart
\* by the draft; here the bare URL just fits.
C22_Witness ==
    /\ NothingToSpliceInto
    /\ x_steps.with_url.url.how = "bare"
    /\ x_steps.with_url.body + x_steps.with_url.tags = 246

\* The nodes of the news workflow in the order of its edges
NewsStages == <<"validate_input", "check_quota", "fetch_news", "filter_articles",
                "summarize_content", "save_results">>

\* The node a request in flight is in
StageOf(step) ==
    IF step \in {"ensure_session", "insert_session", "check_duplicate", "daily_usage",
                 "monthly_usage", "record_request", "commit"}
    THEN "check_quota"
    ELSE step

WriteFails(s, i) == i \in cache_logged[s] \/ Rejected(cache_in[s][i])

\* C24: when the write of one article of a batch fails, the save still ends
\* without an error and every other article of the batch is in the cache.
C24_OneFailureSkipped ==
    \A s \in Savers :
        (/\ cpc[s] = "finished"
         /\ Cardinality({i \in DOMAIN cache_in[s] : WriteFails(s, i)}) = 1)
            => /\ cache_result[s] = "ok"
               /\ \A i \in DOMAIN cache_in[s] :
                      ~WriteFails(s, i) => cache_in[s][i].content_hash \in Hashes(news_cache)

\* C25: at any time the cache holds at most one entry per content hash.
C25_OneEntryPerHash ==
    \A i, j \in DOMAIN news_cache :
        news_cache[i].content_hash = news_cache[j].content_hash => i = j

EndpointReturned ==
    /\ post_in.workflow = "StatelessPostWorkflow"
    /\ ppc = "finished"
    /\ error_message = ""

\* C27: when the generate-posts endpoint returns successfully, the long-form
\* and the short-form post it made are in the post store.
C27_ReturnedPostsAreSaved ==
    EndpointReturned => Generated \subseteq generated_posts

\* The input the stateless workflow was executed with is invalid
InvalidPostInput ==
    \/ post_in.articles = <<>>
    \/ post_in.topic.len = 0
    \/ post_in.llm_model \notin valid_models \cup {PostModel}
    \/ post_in.session_id = ""

\* C28: the stateless post workflow executed with invalid input ends with
\* an error and returns no posts.
C28_InvalidInputRaises ==
    (/\ post_in.workflow = "StatelessPostWorkflow"
     /\ ppc = "finished"
     /\ InvalidPostInput)
        => /\ error_message # ""
           /\ Generated = {}

\* The calls, attempts and delays of the provider at work are within the
\* retry policy
WithinRetryPolicy ==
    /\ sum_attempt <= 2
    /\ sum_delays = SubSeq(<<2, 4>>, 1, sum_attempt)
    /\ sum_calls <= 3 * Len(summarized) + sum_attempt + 1
    /\ sum_calls <= 3 * Len(sum_in.articles)

\* C29: for each article a provider makes at most 3 attempts, waiting 2 and
\* then 4 seconds between them, so its pass over k articles makes at most
\* 3 * k calls of the model; and the stage always comes to an end.
C29_BoundedAttemptsAndTermination ==
    /\ []WithinRetryPolicy
    /\ <>(spc = "finished")

\* C29 witness: every attempt for each of two articles failed, 6 calls
C29_Witness ==
    /\ spc = "finished"
    /\ Len(sum_in.articles) = 2
    /\ sum_calls = 6
    /\ \A i \in DOMAIN summarized : summarized[i].by = "snippet"

\* C30: a summarization that ends well returns exactly one article for each
\* article of the input, in the order of the input; an article whose summary
\* failed is among them with its own snippet cut to 200 characters.
C30_OnePerArticleInOrder ==
    (spc = "finished" /\ sum_result = "ok")
        => /\ Len(summarized) = Len(sum_in.articles)
           /\ \A i \in DOMAIN summarized :
                 /\ summarized[i].article = i
                 /\ summarized[i].by \in {"llm", "snippet"}
                 /\ summarized[i].by = "snippet"
                       => /\ summarized[i].len <= 200
                          /\ summarized[i].len <= sum_in.articles[i]
                          /\ summarized[i].len \in {200, sum_in.articles[i]}
                 /\ summarized[i].by = "llm" => summarized[i].len \in 1..200

\* C30 witness: the first of two articles failed and was kept with its cut
\* snippet, in front of the second, which the model summarized.
C30_Witness ==
    /\ spc = "finished" /\ sum_result = "ok"
    /\ Len(sum_in.articles) = 2
    /\ summarized[1].by = "snippet" /\ summarized[1].article = 1
    /\ sum_in.articles[1] = 300 /\ summarized[1].len = 200
    /\ summarized[2].by = "llm" /\ summarized[2].article = 2

\* C31: in a run of the post workflow session_id, workflow_id, llm_model,
\* topic and articles have, at every node and at the end, the values the
\* run was started with, whatever the nodes return for them.
C31_RequestFieldsKept ==
    gpc # "start" => \A field \in RequestFields : channels[field] = graph_in[field]

(***************************************************************************)
(* Properties of the external state manager and of the stateless runs.     *)
(***************************************************************************)

\* The external state of a run that nothing else touches, after its nodes
SoloState(r, input) ==
    LET created == Merge(external_state_data(r, input), [_version |-> 1])
        linkedin == Merge(created, NodeUpdates_stateless("generate_linkedin_post", created))
        x == Merge(linkedin, NodeUpdates_stateless("generate_x_post", linkedin))
    IN Merge(x, NodeUpdates_stateless("save_posts", x))

\* A node of the run fails on the run's own articles
SoloFails(r, input) ==
    LET created == Merge(external_state_data(r, input), [_version |-> 1])
    IN \/ NodeRaises("generate_linkedin_post", created)
       \/ NodeRaises("generate_x_post", created)

RunEnded(r) == run_pc[r] \in {"returned", "raised"}

\* C32: stateless runs executed concurrently do not interfere: a run under
\* way always finds its own state in the manager, so each of its nodes can
\* work; it fails only on its own input; and what it returns is what it
\* returns when it runs alone with its articles, topic and session, under
\* every interleaving of the nodes.
C32_RunsDoNotInterfere ==
    \A r \in Runners :
        /\ run_pc[r] = "returned" =>
               /\ ~SoloFails(r, run_in[r])
               /\ run_result[r] = _format_results(SoloState(r, run_in[r]))
        /\ run_pc[r] = "raised" => SoloFails(r, run_in[r])
        /\ run_pc[r] \notin {"start", "returned", "raised"} =>
               /\ get_state(_states, run_key[r]) # None
               /\ get_state(_states, run_key[r]).session_id = run_in[r].session_id

\* Two runs with different topics were under way at once and one returned
C32_Witness ==
    /\ run_pc[1] = "returned"
    /\ run_pc[2] \in {"generate_x_post", "save_posts"}
    /\ run_in[1].topic # run_in[2].topic
    /\ run_in[1].articles # <<>>
    /\ run_result[1].posts["linkedin_post"] # None

\* C37: when StatelessPostWorkflow.execute has returned or raised, the
\* external state created for the run is no longer held by the manager.
C37_StateDeletedOnExit ==
    \A r \in Runners : RunEnded(r) => run_key[r] \notin DOMAIN _states

\* The fields of a state that are data of its owner
Data(state) == [field \in DOMAIN state \ {"_version"} |-> state[field]]

\* C40: the manager is a keyed store: after create_state(d) get_state gives
\* d's fields; after update_state(k, u) of a key it holds get_state(k) gives
\* the state it held with u's keys added or overridden; after
\* delete_state(k) get_state(k) gives None; whatever the runs do meanwhile.
C40_KeyedStore ==
    LET held == get_state(_states, client.key)
    IN /\ client.last = "create_state" =>
              /\ held # None
              /\ \A field \in DOMAIN client.arg : held[field] = client.arg[field]
       /\ (client.last = "update_state" /\ client.ret.ok) =>
              /\ held # None
              /\ Data(held) = Merge(Data(client.before), client.arg)
       /\ client.last = "delete_state" => held = None

\* The caller updated a state that held a field of the update and lacked
\* another, while a run had its own state in the manager
C40_Witness ==
    /\ client.last = "update_state"
    /\ client.ret.ok
    /\ "test_field" \in DOMAIN client.before
    /\ "new_field" \in DOMAIN client.arg
    /\ \E r \in Runners : run_key[r] \in DOMAIN _states

(***************************************************************************)
(* Properties of the quota gate and the stages behind it.                  *)
(***************************************************************************)

\* C33: every request the quota gate admitted and recorded went on to the
\* fetch stage, the request that used the last unit of the day included: a
\* request that has ended with its ledger entry committed had the search
\* provider called for it.
C33_AdmittedProceedsToFetch ==
    \A w \in Workers :
        (pc[w] = "done" /\ local[w].committed) => called[w].search

\* C35: whenever the quota counters of a session report available (remaining
\* > 0), the gate does not reject a request of the session for quota: a
\* request is rejected with QuotaExceeded only when the counters read at
\* that moment report not available.
C35_AvailableMeansAdmitted ==
    [][\A w \in Workers :
          (outcome[w] # "QuotaExceeded" /\ outcome'[w] = "QuotaExceeded")
              => ~get_session_quota(Sid(w)).quotaAvailable]_vars

\* The ledger entry of w's request
EntryOf(w) == {r \in ledger : r.id = local[w].new_request_id}

\* The request of w was recorded and a stage behind the gate failed
LaterStageFailed(w) ==
    /\ pc[w] = "done"
    /\ Recorded(w)
    /\ outcome[w] \in {"SerperAPIError", "LLMProviderError", "DatabaseError"}

\* C36: the ledger entry of an admitted request is committed before fetch
\* begins, and when a later stage fails (the search retries are exhausted,
\* every provider fails, the cache write fails) the entry is still in the
\* ledger: it is an entry of the session on its day, so it counts toward the
\* quota, and the duplicate query finds it for the request's fingerprint at
\* every moment of the hour after it was made.
C36_FailureKeepsLedgerEntry ==
    \A w \in Workers :
        /\ (\/ pc[w] \in {"fetch_news", "filter_articles", "summarize_content",
                          "save_results"}
            \/ called[w].search
            \/ LaterStageFailed(w))
               => Cardinality(EntryOf(w)) = 1
        /\ LaterStageFailed(w) =>
               \A r \in EntryOf(w) :
                   /\ r \in EntriesOn(Sid(w), DayOf(r.created_at))
                   /\ \A t \in r.created_at..(r.created_at + OneHour) :
                          r \in DuplicateRows(ledger, Sid(w), RequestHash(w), t)

\* The search failed for a recorded request, and the same request made again
\* within the hour was rejected as a duplicate
C36_Witness ==
    \E w, v \in Workers :
        /\ LaterStageFailed(w)
        /\ outcome[w] = "SerperAPIError"
        /\ v # w
        /\ outcome[v] = "DuplicateRequest"
        /\ RequestHash(v) = RequestHash(w)


\* C39: a request whose fingerprint matches one or more ledger entries of
\* its session within the last hour is rejected as DuplicateRequest, also
\* when more than one entry matches, and is not reported as a database error.
C39_MatchIsDuplicateRequest ==
    \A p \in Gates :
        (gate[p].pc = "done" /\ gate[p].duplicates >= 1)
            => gate[p].result = "DuplicateRequest"


(***************************************************************************)
(* Properties of the post pipeline's failures.                             *)
(***************************************************************************)

\* PostWorkflow.execute raises NewsProcessingError: the graph has ended and
\* the final state holds an error_message
ExecuteRaised ==
    /\ post_in.workflow = "PostWorkflow"
    /\ ppc = "finished"
    /\ error_message # ""

C38_ErrorStopsRun ==
    [][(post_in.workflow = "PostWorkflow" /\ error_message # "")
          => ppc' \in {ppc, "finished"}]_vars

====
